---------------------------- MODULE Spec2Model ----------------------------
(***************************************************************************)
(* FontKitJS (src/unnamed/part_000): font loading, style injection, the    *)
(* font registry, family composition, font selection and the axis string   *)
(* round trip, as state machines.                                          *)
(*                                                                         *)
(* Strings whose characters the code inspects (regular expressions,        *)
(* parseFloat, split) are sequences of one-character strings.  CSS text is *)
(* a sequence of tokens, so that two texts are equal exactly when the      *)
(* strings the code builds are equal.                                      *)
(***************************************************************************)
EXTENDS Integers, Sequences, FiniteSets, TLC

VARIABLES
    \* ---- the platform and the manager's configuration -------------------
    supportsFontFace,   \* line 101: !!global.FontFace
    timeoutSet,         \* line 254: this.timeout is truthy (a timer is armed)
    \* ---- FontManager / FontLoader state ---------------------------------
    registry,           \* FontRegistry.map, in Map insertion order
    injector,           \* StyleInjector: styleEl, rules, the appended nodes
    events,             \* every emit(type, payload), in order
    documentFonts,      \* document.fonts: the calls whose FontFace was added
    nclass,             \* number of createClass calls made
    \* ---- one entry per loadFont call ------------------------------------
    pc,                 \* the call's position
    desc,               \* the descriptor the call was given
    platform,           \* the FontFace load promise of the call
    perr,               \* the rejection reason of that promise
    timer,              \* the timeout timer of the call
    lres,               \* what loader.load returned
    wok,                \* what waitFor resolved with
    \* ---- the ensureFonts call -------------------------------------------
    batch,
    \* ---- composeFamily / select -----------------------------------------
    query,
    \* ---- axisToString / parseAxis ---------------------------------------
    axes, axesMissing, axisText, axisParsed, axisPhase,
    \* ---- featuresToString / parseFeatures --------------------------------
    feat,
    \* ---- EventEmitter ----------------------------------------------------
    emitter,
    \* ---- FontLoader.waitFor, with its clock ------------------------------
    wait,
    \* ---- an element: applyToElement, setAxis, animateAxis, bindElement ---
    elem,
    \* ---- the theme toggle script (src/data/index.ts, index.js) -----------
    theme

loadVars == <<supportsFontFace, timeoutSet, registry, injector, events,
              documentFonts, nclass, pc, desc, platform, perr, timer, lres,
              wok, batch>>
queryVars == <<query>>
axisVars == <<axes, axesMissing, axisText, axisParsed, axisPhase>>
sideVars == <<feat, emitter, wait, elem, theme>>
vars == <<loadVars, queryVars, axisVars, sideVars>>

\* ------------------------------------------------------------------ bounds
MaxCalls == 2      \* loadFont calls (direct or through ensureFonts)
MaxClass == 1      \* createClass calls
MaxFonts == 2      \* registered fonts in the composeFamily / select model
MaxAxes == 2       \* entries of an axis map
MaxFeatures == 2   \* entries of a feature map
MaxListeners == 3  \* registrations of listeners at a time
MaxEmits == 2      \* emit calls
MaxTime == 6       \* the last reading of the clock
MaxAnims == 2      \* animateAxis runs
MaxClicks == 3     \* clicks on the theme button
MaxLoads == 2      \* loads of the page of the theme button

Calls == 1..MaxCalls

\* ----------------------------------------------------------------- strings
\* The characters of the names the model uses.
Chars(s) ==
    CASE s = "Inter" -> <<"I", "n", "t", "e", "r">>
      [] s = "Noto Sans KR" -> <<"N", "o", "t", "o", " ", "S", "a", "n", "s", " ", "K", "R">>
      [] s = "Pretendard" -> <<"P", "r", "e", "t", "e", "n", "d", "a", "r", "d">>
      [] s = "sans-serif" -> <<"s", "a", "n", "s", "-", "s", "e", "r", "i", "f">>
      [] s = "system-ui" -> <<"s", "y", "s", "t", "e", "m", "-", "u", "i">>
      [] s = "Segoe UI" -> <<"S", "e", "g", "o", "e", " ", "U", "I">>
      [] s = "Apple SD Gothic Neo" -> <<"A", "p", "p", "l", "e", " ", "S", "D", " ", "G", "o", "t", "h", "i", "c", " ", "N", "e", "o">>
      [] s = "serif" -> <<"s", "e", "r", "i", "f">>
      [] s = "inter" -> <<"i", "n", "t", "e", "r">>
      [] s = "SANS" -> <<"S", "A", "N", "S">>
      [] s = "" -> <<>>

Spaces == {" ", "\t", "\n"}
Digits == {"0", "1", "2", "3", "4", "5", "6", "7", "8", "9"}
IsSpace(ch) == ch \in Spaces
IsDigit(ch) == ch \in Digits
IsQuote(ch) == ch \in {"\"", "'"}

\* line 68: /\s|["']/.test(s)
NeedsQuotes(s) == \E i \in 1..Len(Chars(s)) : IsSpace(Chars(s)[i]) \/ IsQuote(Chars(s)[i])

\* lines 65-71, for a name that holds no quote character (safe is then s itself)
cssEscape(s) == IF NeedsQuotes(s) THEN <<"\"", s, "\"">> ELSE <<s>>

RECURSIVE Join(_, _)
\* Array.prototype.join: the parts, each a token sequence, with sep between them
Join(parts, sep) ==
    IF parts = <<>> THEN <<>>
    ELSE IF Len(parts) = 1 THEN parts[1]
    ELSE parts[1] \o <<sep>> \o Join(Tail(parts), sep)

\* ------------------------------------------------- numbers and their text
\* A JavaScript value of an axis entry.  A finite number is
\* (-1)^neg * m * 10^(-d), with m not a multiple of 10 when d > 0 and with
\* zero as m = 0, d = 0, neg = FALSE.
Num(neg, m, d) == [kind |-> "num", neg |-> neg, m |-> m, d |-> d, str |-> <<>>]
NaN == [kind |-> "nan", neg |-> FALSE, m |-> 0, d |-> 0, str |-> <<>>]
Null == [kind |-> "null", neg |-> FALSE, m |-> 0, d |-> 0, str |-> <<>>]
Str(s) == [kind |-> "str", neg |-> FALSE, m |-> 0, d |-> 0, str |-> s]

Letters ==
    {"a", "b", "c", "d", "e", "f", "g", "h", "i", "j", "k", "l", "m", "n", "o",
     "p", "q", "r", "s", "t", "u", "v", "w", "x", "y", "z",
     "A", "B", "C", "D", "E", "F", "G", "H", "I", "J", "K", "L", "M", "N", "O",
     "P", "Q", "R", "S", "T", "U", "V", "W", "X", "Y", "Z"}
Alnums == Letters \cup Digits
IsAlnum(ch) == ch \in Alnums

DigitChar(k) == <<"0", "1", "2", "3", "4", "5", "6", "7", "8", "9">>[k + 1]
DigitVal(ch) == CHOOSE k \in 0..9 : DigitChar(k) = ch

RECURSIVE DigitsOf(_)
\* the decimal digits of a natural number
DigitsOf(n) == IF n < 10 THEN <<DigitChar(n)>> ELSE Append(DigitsOf(n \div 10), DigitChar(n % 10))

RECURSIVE DigitsVal(_)
\* the natural number a digit string denotes
DigitsVal(ds) == IF ds = <<>> THEN 0 ELSE 10 * DigitsVal(SubSeq(ds, 1, Len(ds) - 1)) + DigitVal(ds[Len(ds)])

RECURSIVE Zeros(_)
Zeros(n) == IF n <= 0 THEN <<>> ELSE <<"0">> \o Zeros(n - 1)

RECURSIVE Normal(_, _, _)
\* the number (-1)^neg * m * 10^(-d) in the representation above
Normal(neg, m, d) ==
    IF m = 0 THEN Num(FALSE, 0, 0)
    ELSE IF d < 0 THEN Normal(neg, m * 10, d + 1)
    ELSE IF d > 0 /\ m % 10 = 0 THEN Normal(neg, m \div 10, d - 1)
    ELSE Num(neg, m, d)

\* line 79, `${v}` of a number: Number::toString (ECMA-262 6.1.6.1.20);
\* numbers of 1e21 and more are outside the model
NumberToString(v) ==
    IF v.kind # "num" THEN <<"N", "a", "N">>
    ELSE
    LET ds == DigitsOf(v.m)
        k == Len(ds)
        n == k - v.d
        sign == IF v.neg THEN <<"-">> ELSE <<>>
    IN  IF v.d = 0 THEN sign \o ds
        ELSE IF n > 0 THEN sign \o SubSeq(ds, 1, n) \o <<".">> \o SubSeq(ds, n + 1, k)
        ELSE IF n > -6 THEN sign \o <<"0", ".">> \o Zeros(-n) \o ds
        ELSE sign \o <<ds[1]>> \o (IF k > 1 THEN <<".">> \o SubSeq(ds, 2, k) ELSE <<>>)
                  \o <<"e", "-">> \o DigitsOf(1 - n)

RECURSIVE RunEnd(_, _, _)
\* the index after the longest run of characters of the set cs that starts at i
RunEnd(s, i, cs) == IF i <= Len(s) /\ s[i] \in cs THEN RunEnd(s, i + 1, cs) ELSE i

\* parseFloat (ECMA-262 19.2.4) of a string without the literal "Infinity":
\* leading white space, a sign, digits, a fraction, an exponent; NaN when no
\* digit is found
parseFloat(s) ==
    LET a == RunEnd(s, 1, Spaces)
        neg == a <= Len(s) /\ s[a] = "-"
        b == IF a <= Len(s) /\ s[a] \in {"-", "+"} THEN a + 1 ELSE a
        c == RunEnd(s, b, Digits)
        hasDot == c <= Len(s) /\ s[c] = "."
        f == IF hasDot THEN RunEnd(s, c + 1, Digits) ELSE c
        int == SubSeq(s, b, c - 1)
        frac == IF hasDot THEN SubSeq(s, c + 1, f - 1) ELSE <<>>
        hasE == f <= Len(s) /\ s[f] \in {"e", "E"}
        g == IF hasE /\ f + 1 <= Len(s) /\ s[f + 1] \in {"-", "+"} THEN f + 2 ELSE f + 1
        h == IF hasE THEN RunEnd(s, g, Digits) ELSE g
        expOk == hasE /\ h > g
        expNeg == expOk /\ s[g - 1] = "-"
        exp == IF expOk THEN DigitsVal(SubSeq(s, g, h - 1)) ELSE 0
    IN  IF int = <<>> /\ frac = <<>> THEN NaN
        ELSE Normal(neg, DigitsVal(int \o frac),
                    Len(frac) + (IF expNeg THEN exp ELSE 0 - exp))

\* line 40
isNumber(v) == v.kind = "num"

\* String(v) of an axis value that is not a number
StringOf(v) == IF v.kind = "str" THEN v.str ELSE IF v.kind = "nan" THEN <<"N", "a", "N">> ELSE <<"n", "u", "l", "l">>

\* ------------------------------------------------------ axis maps and text
\* An axis map is the sequence of its entries [k, v] in Object.entries order,
\* with distinct keys.
MapHas(map, k) == \E i \in 1..Len(map) : map[i].k = k
MapGet(map, k) == map[CHOOSE i \in 1..Len(map) : map[i].k = k].v
\* out[k] = v
MapPut(map, k, v) ==
    IF MapHas(map, k)
    THEN [i \in 1..Len(map) |-> IF map[i].k = k THEN [k |-> k, v |-> v] ELSE map[i]]
    ELSE Append(map, [k |-> k, v |-> v])
MapKeys(map) == {map[i].k : i \in 1..Len(map)}

RECURSIVE AxisParts(_)
\* lines 75-80: one part per entry that is not null
AxisParts(map) ==
    IF map = <<>> THEN <<>>
    ELSE LET e == map[1]
             rest == AxisParts(Tail(map))
         IN  IF e.v.kind = "null" THEN rest
             ELSE <<(<<"\"">> \o e.k \o <<"\"", " ">>
                     \o NumberToString(IF isNumber(e.v) THEN e.v ELSE parseFloat(StringOf(e.v))))>>
                  \o rest

RECURSIVE JoinChars(_)
\* parts.join(', ') as characters
JoinChars(parts) ==
    IF parts = <<>> THEN <<>>
    ELSE IF Len(parts) = 1 THEN parts[1]
    ELSE parts[1] \o <<",", " ">> \o JoinChars(Tail(parts))

\* lines 73-82; absent = TRUE is axes undefined or null
axisToString(absent, map) == IF absent THEN <<>> ELSE JoinChars(AxisParts(map))

\* line 708: the regular expression at index i; [ok, k, num, end]
AxisMatchAt(s, i) ==
    LET NoMatch == [ok |-> FALSE, k |-> <<>>, num |-> <<>>, end |-> i]
        tagEnd == RunEnd(s, i + 1, Alnums)
        taglen == tagEnd - (i + 1)
        j == tagEnd + 1
        j2 == RunEnd(s, j, Spaces)
        d0 == IF j2 <= Len(s) /\ s[j2] = "-" THEN j2 + 1 ELSE j2
        d1 == RunEnd(s, d0, Digits)
        f1 == IF d1 + 1 <= Len(s) /\ s[d1] = "." /\ IsDigit(s[d1 + 1])
              THEN RunEnd(s, d1 + 1, Digits) ELSE d1
    IN  IF /\ i <= Len(s) /\ s[i] = "\""
           /\ taglen \in {3, 4}
           /\ tagEnd <= Len(s) /\ s[tagEnd] = "\""
           /\ j2 > j
           /\ d1 > d0
        THEN [ok |-> TRUE, k |-> SubSeq(s, i + 1, tagEnd - 1), num |-> SubSeq(s, j2, f1 - 1), end |-> f1]
        ELSE NoMatch

RECURSIVE AxisScan(_, _, _)
\* lines 709-712: re.exec from lastIndex i until no match is left
AxisScan(s, i, out) ==
    IF i > Len(s) THEN out
    ELSE LET m == AxisMatchAt(s, i)
         IN  IF m.ok THEN AxisScan(s, m.end, MapPut(out, m.k, parseFloat(m.num)))
             ELSE AxisScan(s, i + 1, out)

\* lines 704-714
parseAxis(s) == IF s = <<>> THEN <<>> ELSE AxisScan(s, 1, <<>>)

\* ------------------------------------------------------------- descriptors
NoWeight == [kind |-> "none", num |-> 0, str |-> <<>>]
NumWeight(n) == [kind |-> "num", num |-> n, str |-> <<>>]
StrWeight(s) == [kind |-> "str", num |-> 0, str |-> s]

\* A caller's descriptor.  present: it is an object; name "": no name;
\* srcIsArray / langsIsArray / fallbackIsArray: what Array.isArray answers.
Descriptor(name, srcIsArray, src, weight, langsIsArray, languages) ==
    [present |-> TRUE, name |-> name, srcIsArray |-> srcIsArray, src |-> src,
     weight |-> weight, display |-> "", langsIsArray |-> langsIsArray,
     languages |-> languages, fallbackIsArray |-> FALSE, fallback |-> <<>>]

NoDescriptor ==
    [present |-> FALSE, name |-> "", srcIsArray |-> FALSE, src |-> <<>>,
     weight |-> NoWeight, display |-> "", langsIsArray |-> FALSE,
     languages |-> <<>>, fallbackIsArray |-> FALSE, fallback |-> <<>>]

\* line 424: the default fallback chain
defaultFallback == <<"system-ui", "Segoe UI", "Apple SD Gothic Neo", "Noto Sans KR", "sans-serif">>

\* line 428: the manager's default language
defaultLanguage == "ko"

\* a validation that forgets the length of src
ValidDescriptorAnyLength(d) ==
    /\ d.present
    /\ d.name # ""
    /\ d.srcIsArray

\* line 443, negated: the descriptor passes loadFont's validation
ValidDescriptor(d) ==
    /\ d.present
    /\ d.name # ""
    /\ d.srcIsArray
    /\ Len(d.src) # 0

\* lines 447-450
Normalize(d) ==
    [d EXCEPT !.display = IF d.display = "" THEN "swap" ELSE d.display,
              !.fallbackIsArray = TRUE,
              !.fallback = IF d.fallbackIsArray THEN d.fallback ELSE defaultFallback,
              !.langsIsArray = TRUE,
              !.languages = IF d.langsIsArray THEN d.languages ELSE <<>>]

\* ---------------------------------------------------------------- registry
\* lines 189-191: the descriptor under a name (has(name) must hold)
RegistryHas(reg, name) == \E i \in 1..Len(reg) : reg[i].name = name
RegistryGet(reg, name) == reg[CHOOSE i \in 1..Len(reg) : reg[i].name = name]

\* lines 192-194: Map.set overwrites in place, or appends a new key
RegistrySet(reg, d) ==
    IF RegistryHas(reg, d.name)
    THEN [i \in 1..Len(reg) |-> IF reg[i].name = d.name THEN d ELSE reg[i]]
    ELSE Append(reg, d)

\* ---------------------------------------------------------------- CSS text
\* lines 122-127 (and 236-241): one source entry
SrcText(s) == <<"url(", s.url, ")">> \o (IF s.format # "" THEN <<"format(", s.format, ")">> ELSE <<>>)

\* lines 121-137
buildFontFaceCSS(d) ==
    <<"@font-face", "font-family:">> \o cssEscape(d.name)
    \o <<"src:">> \o Join([i \in 1..Len(d.src) |-> SrcText(d.src[i])], ", ")
    \o (IF d.weight.kind # "none" /\ d.weight # NumWeight(0)
        THEN <<"font-weight:">> \o (IF d.weight.kind = "num" THEN <<ToString(d.weight.num)>> ELSE d.weight.str)
        ELSE <<>>)
    \o (IF d.display # "" THEN <<"font-display:", d.display>> ELSE <<>>)

\* ---------------------------------------------------------- StyleInjector
\* lines 201-204
NewInjector == [styleEl |-> FALSE, created |-> 0, nodes |-> <<>>, rules |-> {}]

\* lines 205-212; created counts the style elements appended to document.head
ensureNode(inj) ==
    IF inj.styleEl THEN inj
    ELSE [inj EXCEPT !.styleEl = TRUE, !.created = inj.created + 1]

\* an inject without the rules.has check
injectAlways(inj, cssText) ==
    LET e == ensureNode(inj)
    IN  [e EXCEPT !.nodes = Append(e.nodes, cssText), !.rules = e.rules \cup {cssText}]

\* lines 213-218
inject(inj, cssText) ==
    LET e == ensureNode(inj)
    IN  IF cssText \in e.rules THEN e
        ELSE [e EXCEPT !.nodes = Append(e.nodes, cssText), !.rules = e.rules \cup {cssText}]

\* ----------------------------------------------------------- composeFamily
RECURSIVE LangHit(_, _)
\* lines 491-496: the inner loop over f.languages, left at the first hit
LangHit(langs, langSet) ==
    IF langs = <<>> THEN FALSE
    ELSE IF langs[1] \in langSet THEN TRUE
    ELSE LangHit(Tail(langs), langSet)

RECURSIVE LangMatches(_, _)
\* lines 488-497: the names of the registered fonts tagged with a desired language
LangMatches(reg, langSet) ==
    IF reg = <<>> THEN <<>>
    ELSE LET f == reg[1]
             rest == LangMatches(Tail(reg), langSet)
         IN  IF Len(f.languages) = 0 THEN rest
             ELSE IF LangHit(f.languages, langSet) THEN <<f.name>> \o rest
             ELSE rest

\* line 487: the desired languages
DesiredLanguages(langsGiven, languages) ==
    LET chosen == IF langsGiven /\ Len(languages) # 0 THEN languages ELSE <<defaultLanguage>>
    IN  {chosen[i] : i \in {j \in 1..Len(chosen) : chosen[j] # ""}}

\* a composition that lets the primary match again
FamilyNamesKeepPrimary(reg, primary, fallbackGiven, fallback, langsGiven, languages) ==
    LET lms == LangMatches(reg, DesiredLanguages(langsGiven, languages))
        Truthy(n) == n # ""
    IN  SelectSeq(<<primary>>, Truthy)
        \o SelectSeq(lms, Truthy)
        \o SelectSeq(IF fallbackGiven THEN fallback ELSE defaultFallback, Truthy)

\* lines 481-484, 499-503: the names added, in order (add skips a falsy name)
FamilyNames(reg, primary, fallbackGiven, fallback, langsGiven, languages) ==
    LET lms == LangMatches(reg, DesiredLanguages(langsGiven, languages))
        Truthy(n) == n # ""
        NotPrimary(n) == n # primary
    IN  SelectSeq(<<primary>>, Truthy)
        \o SelectSeq(SelectSeq(lms, NotPrimary), Truthy)
        \o SelectSeq(IF fallbackGiven THEN fallback ELSE defaultFallback, Truthy)

\* lines 479-506: the family list as CSS text
composeFamily(reg, primary, fallbackGiven, fallback, langsGiven, languages) ==
    LET names == FamilyNames(reg, primary, fallbackGiven, fallback, langsGiven, languages)
    IN  Join([i \in 1..Len(names) |-> cssEscape(names[i])], ", ")

\* A style object with family, fallback, languages, size and axes; weight,
\* style, stretch, features, lineHeight, letterSpacing and color are absent.
Style(family, fallbackGiven, fallback, langsGiven, languages, size, axesAbsent, axesMap) ==
    [family |-> family, fallbackGiven |-> fallbackGiven, fallback |-> fallback,
     langsGiven |-> langsGiven, languages |-> languages, size |-> size,
     axesAbsent |-> axesAbsent, axes |-> axesMap]

\* line 44, of a number
toPx(n) == <<ToString(n), "px">>

\* lines 555-580: the class rule createClass injects
ClassCSS(reg, className, style) ==
    <<".", className, "{", "font-family:">>
    \o composeFamily(reg, style.family, style.fallbackGiven, style.fallback,
                     style.langsGiven, style.languages)
    \o <<"font-size:">> \o toPx(IF style.size # 0 THEN style.size ELSE 16)
    \o <<"font-weight:", "normal", "font-style:", "normal", "font-stretch:", "normal">>
    \o (IF ~style.axesAbsent /\ Len(style.axes) # 0
        THEN <<"font-variation-settings:">> \o axisToString(FALSE, style.axes)
        ELSE <<>>)
    \o <<"}">>

\* ------------------------------------------------------------------ select
\* The characters of the weight string the model uses.
W100to900 == <<"1", "0", "0", " ", "9", "0", "0">>

LowerOf(ch) ==
    CASE ch = "A" -> "a" [] ch = "B" -> "b" [] ch = "C" -> "c" [] ch = "D" -> "d"
      [] ch = "E" -> "e" [] ch = "F" -> "f" [] ch = "G" -> "g" [] ch = "H" -> "h"
      [] ch = "I" -> "i" [] ch = "J" -> "j" [] ch = "K" -> "k" [] ch = "L" -> "l"
      [] ch = "M" -> "m" [] ch = "N" -> "n" [] ch = "O" -> "o" [] ch = "P" -> "p"
      [] ch = "Q" -> "q" [] ch = "R" -> "r" [] ch = "S" -> "s" [] ch = "T" -> "t"
      [] ch = "U" -> "u" [] ch = "V" -> "v" [] ch = "W" -> "w" [] ch = "X" -> "x"
      [] ch = "Y" -> "y" [] ch = "Z" -> "z" [] OTHER -> ch

\* String.prototype.toLowerCase, of a name's characters
toLowerCase(s) == [i \in 1..Len(s) |-> LowerOf(s[i])]

\* String.prototype.includes
includes(hay, needle) ==
    \E i \in 1..(Len(hay) - Len(needle) + 1) : SubSeq(hay, i, i + Len(needle) - 1) = needle

\* lines 681, 693: the name holds the preference, whatever the case
NamePrefers(name, prefer) == includes(toLowerCase(Chars(name)), toLowerCase(Chars(prefer)))

\* the collation weight of a character: white space, then digits, then
\* letters, the two cases of a letter together
Collation == <<" ", "-", "0", "1", "2", "3", "4", "5", "6", "7", "8", "9",
               "a", "b", "c", "d", "e", "f", "g", "h", "i", "j", "k", "l", "m",
               "n", "o", "p", "q", "r", "s", "t", "u", "v", "w", "x", "y", "z">>
CollationWeight(ch) == CHOOSE k \in 1..Len(Collation) : Collation[k] = LowerOf(ch)

RECURSIVE CompareChars(_, _)
CompareChars(a, b) ==
    IF a = <<>> /\ b = <<>> THEN 0
    ELSE IF a = <<>> THEN -1
    ELSE IF b = <<>> THEN 1
    ELSE IF CollationWeight(a[1]) < CollationWeight(b[1]) THEN -1
    ELSE IF CollationWeight(a[1]) > CollationWeight(b[1]) THEN 1
    ELSE CompareChars(Tail(a), Tail(b))

\* line 697: a.name.localeCompare(b.name), for names that differ in a letter
localeCompare(a, b) == CompareChars(Chars(a), Chars(b))

\* lines 735, 742: /\d+\s+\d+/.test(w)
RangePattern(w) ==
    \E i \in 1..Len(w) :
        /\ IsDigit(w[i])
        /\ i + 1 <= Len(w) /\ IsSpace(w[i + 1])
        /\ RunEnd(w, i + 1, Spaces) <= Len(w)
        /\ IsDigit(w[RunEnd(w, i + 1, Spaces)])

\* lines 732-737
supportsVariableWeight(f) == f.weight.kind = "str" /\ RangePattern(f.weight.str)

RECURSIVE SplitSpaces(_, _)
\* line 743: w.split(/\s+/); cur is the piece being read
SplitSpaces(w, cur) ==
    IF w = <<>> THEN <<cur>>
    ELSE IF IsSpace(w[1]) THEN <<cur>> \o SplitSpaces(SubSeq(w, RunEnd(w, 1, Spaces), Len(w)), <<>>)
    ELSE SplitSpaces(Tail(w), Append(cur, w[1]))

\* line 743: parseInt(x, 10) of a piece without white space; [nan, n]
parseInt(x) ==
    LET neg == x # <<>> /\ x[1] = "-"
        b == IF x # <<>> /\ x[1] \in {"-", "+"} THEN 2 ELSE 1
        e == RunEnd(x, b, Digits)
    IN  IF e = b THEN [nan |-> TRUE, n |-> 0]
        ELSE [nan |-> FALSE,
              n |-> IF neg THEN 0 - DigitsVal(SubSeq(x, b, e - 1)) ELSE DigitsVal(SubSeq(x, b, e - 1))]

\* lines 739-748
supportsWeightRange(f, min, max) ==
    IF f.weight.kind = "str" /\ RangePattern(f.weight.str)
    THEN LET pieces == SplitSpaces(f.weight.str, <<>>)
             a == parseInt(pieces[1])
             b == parseInt(pieces[2])
         IN  ~a.nan /\ ~b.nan /\ a.n <= min /\ b.n >= max
    ELSE IF f.weight.kind = "num" THEN f.weight.num >= min /\ f.weight.num <= max
    ELSE TRUE

\* Array.prototype.includes
SeqHas(seq, x) == \E i \in 1..Len(seq) : seq[i] = x

RECURSIVE scoreLang(_, _)
\* lines 750-757
scoreLang(fontLangs, desired) ==
    IF Len(fontLangs) = 0 \/ desired = <<>> THEN 0
    ELSE (IF SeqHas(fontLangs, desired[1]) THEN 1 ELSE 0) + scoreLang(fontLangs, Tail(desired))

\* The criteria of a select call.  langsGiven, rangeGiven: the property is
\* not undefined; variable is "absent", "true" or "false"; prefer "" is no
\* preference.
Criteria(langsGiven, languages, variable, rangeGiven, min, max, prefer) ==
    [langsGiven |-> langsGiven, languages |-> languages, variable |-> variable,
     rangeGiven |-> rangeGiven, min |-> min, max |-> max, prefer |-> prefer]

\* line 675: the defaults of the destructured criteria
CriteriaLanguages(cr) == IF cr.langsGiven THEN cr.languages ELSE <<defaultLanguage>>
CriteriaVariable(cr) == cr.variable # "false"

\* a filter that never asks for variable-weight support
SelectMatchesAnyWeight(f, cr) ==
    LET languages == CriteriaLanguages(cr)
        hasLang == Len(f.languages) = 0
                   \/ \E i \in 1..Len(f.languages) : SeqHas(languages, f.languages[i])
        weightOk == IF cr.rangeGiven THEN supportsWeightRange(f, cr.min, cr.max) ELSE TRUE
        preferred == IF cr.prefer # "" THEN NamePrefers(f.name, cr.prefer) ELSE TRUE
    IN  hasLang /\ weightOk /\ preferred

\* lines 678-682: the font passes the four filters
SelectMatches(f, cr) ==
    LET languages == CriteriaLanguages(cr)
        hasLang == Len(f.languages) = 0
                   \/ \E i \in 1..Len(f.languages) : SeqHas(languages, f.languages[i])
        hasVar == IF CriteriaVariable(cr) THEN supportsVariableWeight(f) ELSE TRUE
        weightOk == IF cr.rangeGiven THEN supportsWeightRange(f, cr.min, cr.max) ELSE TRUE
        preferred == IF cr.prefer # "" THEN NamePrefers(f.name, cr.prefer) ELSE TRUE
    IN  hasLang /\ hasVar /\ weightOk /\ preferred

\* lines 685-698: the comparator; negative when a comes first
SelectCompare(a, b, cr) ==
    LET avar == IF supportsVariableWeight(a) THEN 1 ELSE 0
        bvar == IF supportsVariableWeight(b) THEN 1 ELSE 0
        alang == scoreLang(a.languages, CriteriaLanguages(cr))
        blang == scoreLang(b.languages, CriteriaLanguages(cr))
        ap == IF NamePrefers(a.name, cr.prefer) THEN 1 ELSE 0
        bp == IF NamePrefers(b.name, cr.prefer) THEN 1 ELSE 0
    IN  IF avar # bvar THEN bvar - avar
        ELSE IF alang # blang THEN blang - alang
        ELSE IF cr.prefer # "" /\ ap # bp THEN bp - ap
        ELSE localeCompare(a.name, b.name)

RECURSIVE SortInsert(_, _, _)
\* x placed after every element it does not come before (a stable sort)
SortInsert(sorted, x, cr) ==
    IF sorted = <<>> THEN <<x>>
    ELSE IF SelectCompare(x, sorted[1], cr) < 0 THEN <<x>> \o sorted
    ELSE <<sorted[1]>> \o SortInsert(Tail(sorted), x, cr)

RECURSIVE SortMatches(_, _)
\* line 685: Array.prototype.sort, which is stable
SortMatches(matches, cr) ==
    IF matches = <<>> THEN <<>>
    ELSE SortInsert(SortMatches(SubSeq(matches, 1, Len(matches) - 1), cr), matches[Len(matches)], cr)

\* lines 675-700
select(reg, cr) ==
    LET Passes(f) == SelectMatches(f, cr)
    IN  SortMatches(SelectSeq(reg, Passes), cr)

\* no composeFamily or select call has been made
NoQuery ==
    [op |-> "none", primary |-> "", fallbackGiven |-> FALSE, fallback |-> <<>>,
     criteria |-> Criteria(FALSE, <<>>, "absent", FALSE, 0, 0, ""),
     text |-> <<>>, fonts |-> <<>>]

\* -------------------------------------------------- loadFont / ensureFonts
\* The descriptors loadFont is called with in the load model.
SrcInter == <<[url |-> "/fonts/Inter.var.woff2", format |-> "woff2"]>>
SrcNoto == <<[url |-> "/fonts/NotoSansKR-Regular.woff2", format |-> ""]>>
DInter == Descriptor("Inter", TRUE, SrcInter, StrWeight(<<"1", "0", "0", " ", "9", "0", "0">>), FALSE, <<>>)
DNoto == Descriptor("Noto Sans KR", TRUE, SrcNoto, NumWeight(400), TRUE, <<"ko">>)
DNoName == Descriptor("", TRUE, SrcInter, NoWeight, FALSE, <<>>)
DSrcNotArray == Descriptor("Inter", FALSE, <<>>, NoWeight, FALSE, <<>>)
DSrcEmpty == Descriptor("Inter", TRUE, <<>>, NoWeight, FALSE, <<>>)
ValidDescs == {DInter, DNoto}
InvalidDescs == {NoDescriptor, DNoName, DSrcNotArray, DSrcEmpty}
LoadDescs == ValidDescs \cup InvalidDescs
\* the elements of the lists ensureFonts is called with
ListDescs == ValidDescs \cup {DSrcEmpty}

\* The styles createClass is called with in the load model.
ClassStyles == {Style("Inter", FALSE, <<>>, TRUE, <<"ko">>, 32, TRUE, <<>>)}

NoResult == [status |-> "none", font |-> 0, error |-> "none"]
\* the value of an emit: load{name, result}, ready{name, ok}, class{className}
Event(type, call, name, result, ok) ==
    [type |-> type, call |-> call, name |-> name, result |-> result, ok |-> ok]

NoBatch == [status |-> "none", list |-> <<>>, ids |-> <<>>, value |-> <<>>]

\* the ensureFonts call is inside fonts.map: nothing else runs meanwhile
Mapping == batch.status = "mapping"

HasIdle == \E c \in Calls : pc[c] = "idle"
NextCall == CHOOSE c \in Calls : pc[c] = "idle" /\ \A b \in Calls : pc[b] = "idle" => c <= b

\* lines 447-450: the normalized descriptor of call c
Norm(c) == Normalize(desc[c])

\* lines 442-453 and 227-257: loadFont(d) as call c, up to its first await
LoadFontSync(c, d) ==
    /\ pc[c] = "idle"
    /\ desc' = [desc EXCEPT ![c] = d]
    /\ IF ~ValidDescriptor(d)
       THEN \* line 444: the promise loadFont returns is rejected
            /\ pc' = [pc EXCEPT ![c] = "rejected"]
            /\ UNCHANGED <<platform, timer, lres, injector>>
       ELSE /\ IF ~supportsFontFace
               THEN \* lines 228-233
                    /\ injector' = inject(injector, buildFontFaceCSS(Normalize(d)))
                    /\ lres' = [lres EXCEPT ![c] = [status |-> "injected", font |-> 0, error |-> "none"]]
                    /\ pc' = [pc EXCEPT ![c] = "loadSettled"]
                    /\ UNCHANGED <<platform, timer>>
               ELSE \* lines 246-257: new FontFace, the timer, fontFace.load()
                    /\ platform' = [platform EXCEPT ![c] = "pending"]
                    /\ timer' = [timer EXCEPT ![c] = IF timeoutSet THEN "armed" ELSE "none"]
                    /\ pc' = [pc EXCEPT ![c] = "awaitLoad"]
                    /\ UNCHANGED <<lres, injector>>
    /\ UNCHANGED <<supportsFontFace, timeoutSet, registry, events, documentFonts,
                   nclass, perr, wok, queryVars, axisVars, sideVars>>

\* a caller calls loadFont(d)
CallLoadFont ==
    /\ ~Mapping
    /\ HasIdle
    /\ \E d \in LoadDescs : LoadFontSync(NextCall, d)
    /\ UNCHANGED batch

\* the platform settles the FontFace load promise of call c
PlatformSettle(c) ==
    /\ ~Mapping
    /\ pc[c] = "awaitLoad"
    /\ platform[c] = "pending"
    /\ \/ /\ platform' = [platform EXCEPT ![c] = "fulfilled"]
          /\ UNCHANGED perr
       \/ /\ platform' = [platform EXCEPT ![c] = "rejected"]
          /\ perr' = [perr EXCEPT ![c] = "NetworkError"]
    /\ UNCHANGED <<supportsFontFace, timeoutSet, registry, injector, events,
                   documentFonts, nclass, pc, desc, timer, lres, wok, batch, queryVars, axisVars, sideVars>>

\* line 254: the timer's callback, fontFace.cancel && fontFace.cancel().
\* FontFace has no cancel method in the CSS Font Loading API; where a build
\* provides one it may reject the load promise.
TimerFire(c) ==
    /\ ~Mapping
    /\ pc[c] = "awaitLoad"
    /\ timer[c] = "armed"
    /\ platform[c] = "pending"
    /\ timer' = [timer EXCEPT ![c] = "fired"]
    /\ \/ UNCHANGED <<platform, perr>>
       \/ /\ platform' = [platform EXCEPT ![c] = "rejected"]
          /\ perr' = [perr EXCEPT ![c] = "AbortError"]
    /\ UNCHANGED <<supportsFontFace, timeoutSet, registry, injector, events,
                   documentFonts, nclass, pc, desc, lres, wok, batch, queryVars, axisVars, sideVars>>

\* lines 258 and 262: if (timer) clearTimeout(timer)
ClearTimer(t) == IF t = "none" THEN "none" ELSE "cleared"

\* lines 257-260: the load promise is fulfilled
LoadThen(c) ==
    /\ ~Mapping
    /\ pc[c] = "awaitLoad"
    /\ platform[c] = "fulfilled"
    /\ timer' = [timer EXCEPT ![c] = ClearTimer(timer[c])]
    /\ documentFonts' = documentFonts \cup {c}
    /\ lres' = [lres EXCEPT ![c] = [status |-> "loaded", font |-> c, error |-> "none"]]
    /\ pc' = [pc EXCEPT ![c] = "loadSettled"]
    /\ UNCHANGED <<supportsFontFace, timeoutSet, registry, injector, events,
                   nclass, desc, platform, perr, wok, batch,
                   queryVars, axisVars, sideVars>>

\* a catch block that rethrows: loadFont rejects with the load error
LoadCatchRethrow(c) ==
    /\ ~Mapping
    /\ pc[c] = "awaitLoad"
    /\ platform[c] = "rejected"
    /\ timer' = [timer EXCEPT ![c] = ClearTimer(timer[c])]
    /\ pc' = [pc EXCEPT ![c] = "rejected"]
    /\ UNCHANGED <<supportsFontFace, timeoutSet, registry, injector, events,
                   documentFonts, nclass, desc, platform, perr, lres, wok, batch,
                   queryVars, axisVars, sideVars>>

\* lines 261-267: the load promise is rejected
LoadCatch(c) ==
    /\ ~Mapping
    /\ pc[c] = "awaitLoad"
    /\ platform[c] = "rejected"
    /\ timer' = [timer EXCEPT ![c] = ClearTimer(timer[c])]
    /\ injector' = inject(injector, buildFontFaceCSS(Norm(c)))
    /\ lres' = [lres EXCEPT ![c] = [status |-> "failed", font |-> 0, error |-> perr[c]]]
    /\ pc' = [pc EXCEPT ![c] = "loadSettled"]
    /\ UNCHANGED <<supportsFontFace, timeoutSet, registry, events, documentFonts,
                   nclass, desc, platform, perr, wok, batch,
                   queryVars, axisVars, sideVars>>

\* lines 298-312: one tick of waitFor for call c.  differs: the probe's width
\* is more than 0.5px from the baseline; late: performance.now() > timeoutAt
Tick(c, differs, late) ==
    IF differs
    THEN /\ wok' = [wok EXCEPT ![c] = TRUE]
         /\ pc' = [pc EXCEPT ![c] = "readySettled"]
    ELSE IF late
    THEN /\ wok' = [wok EXCEPT ![c] = FALSE]
         /\ pc' = [pc EXCEPT ![c] = "readySettled"]
    ELSE /\ wok' = wok
         /\ pc' = [pc EXCEPT ![c] = "awaitReady"]

\* an AfterLoad that registers the descriptor only when the font was loaded
AfterLoadRegisterLoaded(c) ==
    /\ ~Mapping
    /\ pc[c] = "loadSettled"
    /\ registry' = IF lres[c].status = "loaded" THEN RegistrySet(registry, Norm(c)) ELSE registry
    /\ events' = Append(events, Event("load", c, Norm(c).name, lres[c], FALSE))
    /\ \E differs \in BOOLEAN, late \in (IF timeoutSet THEN {FALSE} ELSE BOOLEAN) :
          Tick(c, differs, late)
    /\ UNCHANGED <<supportsFontFace, timeoutSet, injector, documentFonts, nclass,
                   desc, platform, perr, timer, lres, batch,
                   queryVars, axisVars, sideVars>>

\* lines 453-458: load() has returned; registry.set, emit('load'), and
\* waitFor up to its first tick (line 313).  With timeout 0 the deadline is
\* the start itself, and the first tick may already be past it.
AfterLoad(c) ==
    /\ ~Mapping
    /\ pc[c] = "loadSettled"
    /\ registry' = RegistrySet(registry, Norm(c))
    /\ events' = Append(events, Event("load", c, Norm(c).name, lres[c], FALSE))
    /\ \E differs \in BOOLEAN, late \in (IF timeoutSet THEN {FALSE} ELSE BOOLEAN) :
          Tick(c, differs, late)
    /\ UNCHANGED <<supportsFontFace, timeoutSet, injector, documentFonts, nclass,
                   desc, platform, perr, timer, lres, batch,
                   queryVars, axisVars, sideVars>>

\* line 311: an animation frame before the deadline runs the tick of call c
WaitTick(c) ==
    /\ ~Mapping
    /\ pc[c] = "awaitReady"
    /\ \E differs \in BOOLEAN : Tick(c, differs, FALSE)
    /\ UNCHANGED <<supportsFontFace, timeoutSet, registry, injector, events,
                   documentFonts, nclass, desc, platform, perr, timer, lres,
                   batch, queryVars, axisVars, sideVars>>

\* line 311: an animation frame after the deadline (line 306) runs the tick
WaitTickLate(c) ==
    /\ ~Mapping
    /\ pc[c] = "awaitReady"
    /\ \E differs \in BOOLEAN : Tick(c, differs, TRUE)
    /\ UNCHANGED <<supportsFontFace, timeoutSet, registry, injector, events,
                   documentFonts, nclass, desc, platform, perr, timer, lres,
                   batch, queryVars, axisVars, sideVars>>

\* an AfterWait that throws when the probe timed out
AfterWaitThrowNotReady(c) ==
    /\ ~Mapping
    /\ pc[c] = "readySettled"
    /\ events' = Append(events, Event("ready", c, Norm(c).name, NoResult, wok[c]))
    /\ pc' = [pc EXCEPT ![c] = IF wok[c] THEN "done" ELSE "rejected"]
    /\ UNCHANGED <<supportsFontFace, timeoutSet, registry, injector, documentFonts,
                   nclass, desc, platform, perr, timer, lres, wok, batch,
                   queryVars, axisVars, sideVars>>

\* lines 458-461: waitFor has resolved; emit('ready') and return
AfterWait(c) ==
    /\ ~Mapping
    /\ pc[c] = "readySettled"
    /\ events' = Append(events, Event("ready", c, Norm(c).name, NoResult, wok[c]))
    /\ pc' = [pc EXCEPT ![c] = "done"]
    /\ UNCHANGED <<supportsFontFace, timeoutSet, registry, injector, documentFonts,
                   nclass, desc, platform, perr, timer, lres, wok, batch, queryVars, axisVars, sideVars>>

\* line 461: what the loadFont call c resolved with
Returned(c) == [name |-> Norm(c).name, ok |-> wok[c], result |-> lres[c]]

\* lines 554-584
CreateClass ==
    /\ ~Mapping
    /\ nclass < MaxClass
    /\ \E style \in ClassStyles :
          /\ injector' = inject(injector, ClassCSS(registry, "title-font", style))
          /\ events' = Append(events, Event("class", 0, "title-font", NoResult, FALSE))
    /\ nclass' = nclass + 1
    /\ UNCHANGED <<supportsFontFace, timeoutSet, registry, documentFonts, pc, desc,
                   platform, perr, timer, lres, wok, batch,
                   queryVars, axisVars, sideVars>>

NumIdle == Cardinality({c \in Calls : pc[c] = "idle"})

\* the lists ensureFonts is called with
RECURSIVE Lists(_)
Lists(n) ==
    IF n = 0 THEN {<<>>}
    ELSE Lists(n - 1) \cup {Append(l, d) : l \in {x \in Lists(n - 1) : Len(x) = n - 1}, d \in ListDescs}

\* line 465: ensureFonts(list) enters fonts.map
EnsureFonts ==
    /\ batch.status = "none"
    /\ \E list \in Lists(NumIdle) :
          batch' = [status |-> IF list = <<>> THEN "pending" ELSE "mapping",
                    list |-> list, ids |-> <<>>, value |-> <<>>]
    /\ UNCHANGED <<supportsFontFace, timeoutSet, registry, injector, events,
                   documentFonts, nclass, pc, desc, platform, perr, timer, lres,
                   wok, queryVars, axisVars, sideVars>>

\* line 465: fonts.map calls loadFont on the next element of the list
EnsureFontsStep ==
    /\ Mapping
    /\ LET i == Len(batch.ids) + 1
       IN  /\ LoadFontSync(NextCall, batch.list[i])
           /\ batch' = [batch EXCEPT !.ids = Append(batch.ids, NextCall),
                                     !.status = IF i = Len(batch.list) THEN "pending" ELSE "mapping"]

\* the calls of ids in the order in which they emitted 'ready'
CompletionOrder(ids) ==
    LET idx == {i \in 1..Len(events) : events[i].type = "ready" /\ events[i].call \in {ids[j] : j \in 1..Len(ids)}}
        Nth(n) == CHOOSE i \in idx : Cardinality({j \in idx : j < i}) = n - 1
    IN  [n \in 1..Cardinality(idx) |-> events[Nth(n)].call]

\* a Promise.all that collected the values as the promises resolved
BatchValueAsCompleted(ids) ==
    LET order == CompletionOrder(ids)
    IN  [n \in 1..Len(order) |-> Returned(order[n])]

\* line 465: the value of Promise.all: the value of promise i at index i
BatchValue(ids) == [i \in 1..Len(ids) |-> Returned(ids[i])]

\* a Promise.all whose rejection stops the loads that are still under way
BatchSettleCancelling ==
    /\ batch.status = "pending"
    /\ \/ /\ \E i \in 1..Len(batch.ids) : pc[batch.ids[i]] = "rejected"
          /\ batch' = [batch EXCEPT !.status = "rejected"]
          /\ pc' = [c \in Calls |->
                      IF (\E i \in 1..Len(batch.ids) : batch.ids[i] = c) /\ pc[c] # "done"
                      THEN "rejected" ELSE pc[c]]
       \/ /\ \A i \in 1..Len(batch.ids) : pc[batch.ids[i]] = "done"
          /\ batch' = [batch EXCEPT !.status = "fulfilled",
                                    !.value = BatchValue(batch.ids)]
          /\ UNCHANGED pc
    /\ UNCHANGED <<supportsFontFace, timeoutSet, registry, injector, events,
                   documentFonts, nclass, desc, platform, perr, timer, lres,
                   wok, queryVars, axisVars, sideVars>>

\* line 465: Promise.all settles: rejected with the first rejection, or
\* fulfilled with the values in the order of the promises
BatchSettle ==
    /\ batch.status = "pending"
    /\ \/ /\ \E i \in 1..Len(batch.ids) : pc[batch.ids[i]] = "rejected"
          /\ batch' = [batch EXCEPT !.status = "rejected"]
       \/ /\ \A i \in 1..Len(batch.ids) : pc[batch.ids[i]] = "done"
          /\ batch' = [batch EXCEPT !.status = "fulfilled",
                                    !.value = BatchValue(batch.ids)]
    /\ UNCHANGED <<supportsFontFace, timeoutSet, registry, injector, events,
                   documentFonts, nclass, pc, desc, platform, perr, timer, lres,
                   wok, queryVars, axisVars, sideVars>>

\* ---- the fixed values of the parts a specification does not use
NoFeat == [phase |-> "none", missing |-> FALSE, map |-> <<>>, text |-> <<>>, parsed |-> <<>>]
NoEmitter ==
    [phase |-> "none", listeners |-> [t \in {"preset", "load", "class"} |-> <<>>], caller |-> "", type |-> "", payload |-> "",
     snap |-> <<>>, idx |-> 0, invoked |-> <<>>, errors |-> 0, returned |-> FALSE,
     emits |-> 0]
NoWait ==
    [phase |-> "none", now |-> 0, timeout |-> 0, timeoutAt |-> 0, baseWidth |-> 0,
     width |-> 0, polls |-> 0, scheduled |-> FALSE, resolves |-> 0, value |-> FALSE,
     probe |-> FALSE]
NoElem == [phase |-> "none", fvs |-> <<>>, ffs |-> <<>>]
NoTheme ==
    [phase |-> "none", variant |-> "", button |-> FALSE,
     storage |-> [k \in {"ml-tools-theme", "ml-tools-lang"} |-> "null"],
     prefersLight |-> FALSE, matchMedia |-> FALSE, markup |-> "none",
     dataTheme |-> "none", ariaPressed |-> "none", text |-> "",
     listeners |-> 0, clicks |-> 0, sinceLoad |-> 0, loads |-> 0]
IdleFeat == feat = NoFeat
IdleEmitter == emitter = NoEmitter
IdleWait == wait = NoWait
IdleElem == elem = NoElem
IdleTheme == theme = NoTheme
IdleSide == IdleFeat /\ IdleEmitter /\ IdleWait /\ IdleElem /\ IdleTheme
IdleLoad ==
    /\ registry = <<>>
    /\ injector = NewInjector
    /\ events = <<>>
    /\ documentFonts = {}
    /\ nclass = 0
    /\ pc = [c \in Calls |-> "idle"]
    /\ desc = [c \in Calls |-> NoDescriptor]
    /\ platform = [c \in Calls |-> "none"]
    /\ perr = [c \in Calls |-> "none"]
    /\ timer = [c \in Calls |-> "none"]
    /\ lres = [c \in Calls |-> NoResult]
    /\ wok = [c \in Calls |-> FALSE]
    /\ batch = NoBatch
IdleQuery == query = NoQuery
IdleAxis ==
    /\ axes = <<>> /\ axesMissing = FALSE
    /\ axisText = <<>> /\ axisParsed = <<>> /\ axisPhase = "none"

\* ---- the load model: a new FontManager (lines 422-431) on either platform
InitLoad ==
    /\ supportsFontFace \in BOOLEAN
    /\ timeoutSet \in BOOLEAN
    /\ IdleLoad
    /\ IdleQuery
    /\ IdleAxis
    /\ IdleSide

NextLoad ==
    \/ CallLoadFont
    \/ EnsureFonts
    \/ EnsureFontsStep
    \/ BatchSettle
    \/ CreateClass
    \/ \E c \in Calls : PlatformSettle(c)
    \/ \E c \in Calls : TimerFire(c)
    \/ \E c \in Calls : LoadThen(c)
    \/ \E c \in Calls : LoadCatch(c)
    \/ \E c \in Calls : AfterLoad(c)
    \/ \E c \in Calls : WaitTick(c)
    \/ \E c \in Calls : WaitTickLate(c)
    \/ \E c \in Calls : AfterWait(c)

Spec == InitLoad /\ [][NextLoad]_vars

\* ---- ensureFonts alone, with the scheduling the event loop gives: every
\* continuation whose promise has settled runs, animation frames keep firing
\* and time passes every deadline.  PlatformSettle is fair as well: the
\* platform load of every descriptor completes, in any order.
NextEnsure ==
    \/ EnsureFonts
    \/ EnsureFontsStep
    \/ BatchSettle
    \/ \E c \in Calls : PlatformSettle(c)
    \/ \E c \in Calls : TimerFire(c)
    \/ \E c \in Calls : LoadThen(c)
    \/ \E c \in Calls : LoadCatch(c)
    \/ \E c \in Calls : AfterLoad(c)
    \/ \E c \in Calls : WaitTick(c)
    \/ \E c \in Calls : WaitTickLate(c)
    \/ \E c \in Calls : AfterWait(c)

SpecEnsure ==
    /\ InitLoad
    /\ [][NextEnsure]_vars
    /\ WF_vars(EnsureFontsStep)
    /\ WF_vars(BatchSettle)
    /\ \A c \in Calls : /\ WF_vars(PlatformSettle(c))
                        /\ WF_vars(LoadThen(c))
                        /\ WF_vars(LoadCatch(c))
                        /\ WF_vars(AfterLoad(c))
                        /\ WF_vars(WaitTickLate(c))
                        /\ WF_vars(AfterWait(c))

\* --------------------------------------- the composeFamily / select model
\* The fonts registered in this model: every name with every language list
\* and every weight below.
QueryNames == {"Inter", "Noto Sans KR", "Pretendard"}
QueryFontLanguages == {<<>>, <<"ko">>, <<"en", "ko">>}
QueryWeights == {NoWeight, NumWeight(400), StrWeight(W100to900)}
QueryDescs ==
    {Descriptor(n, TRUE, SrcInter, w, l # <<>>, l) :
        n \in QueryNames, w \in QueryWeights, l \in QueryFontLanguages}

\* the arguments of the calls
QueryPrimaries == {"Inter", "Noto Sans KR", ""}
QueryLanguages == {<<>>, <<"ko">>, <<"ja", "en">>}
QueryRanges == {<<300, 500>>, <<500, 950>>}
SelectLanguages == {<<>>, <<"ko", "en">>}
QueryPrefers == {"", "SANS"}

\* lines 442-461, for the registry alone: a loadFont call of a valid
\* descriptor has come to its registry.set (line 454).  query holds the last
\* composeFamily or select call made since the registry last changed.
RegisterFont ==
    \E d \in QueryDescs :
        /\ RegistryHas(registry, d.name) \/ Len(registry) < MaxFonts
        /\ registry' = RegistrySet(registry, Normalize(d))
        /\ query' = NoQuery
        /\ UNCHANGED <<supportsFontFace, timeoutSet, injector, events,
                       documentFonts, nclass, pc, desc, platform, perr, timer,
                       lres, wok, batch, axisVars, sideVars>>

\* lines 479-506: a composeFamily call and the text it returns
ComposeFamilyCall ==
    \E primary \in QueryPrimaries, fallbackGiven \in BOOLEAN, langsGiven \in BOOLEAN,
       languages \in QueryLanguages :
        /\ langsGiven \/ languages = <<>>
        /\ LET fallback == IF fallbackGiven THEN <<"serif">> ELSE <<>>
           IN  query' = [NoQuery EXCEPT
                   !.op = "composeFamily", !.primary = primary,
                   !.fallbackGiven = fallbackGiven, !.fallback = fallback,
                   !.criteria = Criteria(langsGiven, languages, "absent", FALSE, 0, 0, ""),
                   !.text = composeFamily(registry, primary, fallbackGiven, fallback,
                                          langsGiven, languages)]
        /\ UNCHANGED <<loadVars, axisVars, sideVars>>

\* lines 675-700: a select call and the fonts it returns
SelectCall ==
    \E langsGiven \in BOOLEAN, languages \in SelectLanguages,
       variable \in {"absent", "true", "false"}, rangeGiven \in BOOLEAN,
       range \in QueryRanges, prefer \in QueryPrefers :
        /\ langsGiven = (languages # <<>>)
        /\ rangeGiven \/ range = <<300, 500>>
        /\ LET cr == Criteria(langsGiven, languages, variable, rangeGiven,
                              IF rangeGiven THEN range[1] ELSE 0,
                              IF rangeGiven THEN range[2] ELSE 0, prefer)
           IN  query' = [NoQuery EXCEPT
                   !.op = "select", !.criteria = cr, !.fonts = select(registry, cr)]
        /\ UNCHANGED <<loadVars, axisVars, sideVars>>

InitQuery ==
    /\ supportsFontFace = TRUE
    /\ timeoutSet = TRUE
    /\ IdleLoad
    /\ IdleQuery
    /\ IdleAxis
    /\ IdleSide

NextQuery ==
    \/ RegisterFont
    \/ ComposeFamilyCall
    \/ SelectCall

SpecQuery == InitQuery /\ [][NextQuery]_vars

\* ------------------------------------- the axisToString / parseAxis model
\* The axis maps of the model: up to MaxAxes entries with distinct tags.
\* Every value is null, a finite number or a string that parseFloat reads
\* as a finite number.
TagWght == <<"w", "g", "h", "t">>
TagItal == <<"i", "t", "a", "l">>
TagSlnt == <<"s", "l", "n", "t">>
AxisTags == {TagWght, TagItal, TagSlnt}
AxisValues ==
    {Num(FALSE, 500, 0), Num(FALSE, 0, 0), Num(TRUE, 10, 0), Num(FALSE, 125, 1),
     Num(FALSE, 1, 6), Num(FALSE, 1, 7), Num(TRUE, 2, 7), Null,
     Str(<<"7", "0", "0">>), Str(<<"1", "2", ".", "5", "p", "x">>)}
AxisEntries == {[k |-> k, v |-> v] : k \in AxisTags, v \in AxisValues}

RECURSIVE AxisMapsOf(_)
AxisMapsOf(n) ==
    IF n = 0 THEN {<<>>}
    ELSE LET shorter == AxisMapsOf(n - 1)
         IN  shorter \cup {Append(m, e) : m \in {x \in shorter : Len(x) = n - 1},
                                           e \in AxisEntries}
AxisMaps == {m \in AxisMapsOf(MaxAxes) : \A i, j \in 1..Len(m) : i # j => m[i].k # m[j].k}

InitAxis ==
    /\ supportsFontFace = TRUE
    /\ timeoutSet = TRUE
    /\ IdleLoad
    /\ IdleQuery
    /\ IdleSide
    /\ axesMissing \in BOOLEAN
    /\ axes \in AxisMaps
    /\ axesMissing => axes = <<>>
    /\ axisText = <<>>
    /\ axisParsed = <<>>
    /\ axisPhase = "axes"

\* lines 73-82: axisToString(axes)
AxisToStringStep ==
    /\ axisPhase = "axes"
    /\ axisText' = axisToString(axesMissing, axes)
    /\ axisPhase' = "text"
    /\ UNCHANGED <<loadVars, queryVars, sideVars, axes, axesMissing, axisParsed>>

\* lines 704-714: parseAxis of that text
ParseAxisStep ==
    /\ axisPhase = "text"
    /\ axisParsed' = parseAxis(axisText)
    /\ axisPhase' = "parsed"
    /\ UNCHANGED <<loadVars, queryVars, sideVars, axes, axesMissing, axisText>>

NextAxis ==
    \/ AxisToStringStep
    \/ ParseAxisStep

SpecAxis == InitAxis /\ [][NextAxis]_vars


\* --------------------------------- the featuresToString / parseFeatures model
\* A boolean as a feature value.
Bool(b) == [kind |-> "bool", neg |-> FALSE, m |-> IF b THEN 1 ELSE 0, d |-> 0, str |-> <<>>]

\* line 89: v is truthy
Truthy(v) ==
    CASE v.kind = "num" -> v.m # 0
      [] v.kind = "bool" -> v.m = 1
      [] v.kind = "str" -> v.str # <<>>
      [] OTHER -> FALSE

RECURSIVE FeaturePartsAsFlags(_)
\* a serialisation that writes every entry as a flag
FeaturePartsAsFlags(map) ==
    IF map = <<>> THEN <<>>
    ELSE LET e == map[1]
             rest == FeaturePartsAsFlags(Tail(map))
             flag == IF Truthy(e.v) THEN <<"o", "n">> ELSE <<"o", "f", "f">>
         IN  IF e.v.kind = "null" THEN rest
             ELSE <<(<<"\"">> \o e.k \o <<"\"", " ">> \o flag)>> \o rest

RECURSIVE FeatureParts(_)
\* lines 87-96: one part per entry that is not null
FeatureParts(map) ==
    IF map = <<>> THEN <<>>
    ELSE LET e == map[1]
             rest == FeatureParts(Tail(map))
             flag == IF Truthy(e.v) THEN <<"o", "n">> ELSE <<"o", "f", "f">>
         IN  IF e.v.kind = "null" THEN rest
             ELSE <<(<<"\"">> \o e.k \o <<"\"", " ">>
                     \o (IF isNumber(e.v) THEN NumberToString(e.v) ELSE flag))>>
                  \o rest

\* lines 84-98; absent = TRUE is features undefined or null
featuresToString(absent, map) == IF absent THEN <<>> ELSE JoinChars(FeatureParts(map))

\* lines 720, 721: the opening of both regular expressions at index i, a
\* quoted tag and white space; [ok, k, at]: at is the index after the space
TagMatchAt(s, i) ==
    LET tagEnd == RunEnd(s, i + 1, Alnums)
        taglen == tagEnd - (i + 1)
        j == RunEnd(s, tagEnd + 1, Spaces)
    IN  IF /\ i <= Len(s) /\ s[i] = "\""
           /\ taglen \in {3, 4}
           /\ tagEnd <= Len(s) /\ s[tagEnd] = "\""
           /\ j > tagEnd + 1
        THEN [ok |-> TRUE, k |-> SubSeq(s, i + 1, tagEnd - 1), at |-> j]
        ELSE [ok |-> FALSE, k |-> <<>>, at |-> i]

\* a parsed integer as a number value
IntValue(n) == IF n < 0 THEN Normal(TRUE, 0 - n, 0) ELSE Normal(FALSE, n, 0)

RECURSIVE FeatureNumScan(_, _, _)
\* lines 720, 723-725: every match of reNum from index i on
FeatureNumScan(s, i, out) ==
    IF i > Len(s) THEN out
    ELSE LET t == TagMatchAt(s, i)
             d0 == IF t.at <= Len(s) /\ s[t.at] = "-" THEN t.at + 1 ELSE t.at
             d1 == RunEnd(s, d0, Digits)
         IN  IF t.ok /\ d1 > d0
             THEN FeatureNumScan(s, d1, MapPut(out, t.k, IntValue(parseInt(SubSeq(s, t.at, d1 - 1)).n)))
             ELSE FeatureNumScan(s, i + 1, out)

RECURSIVE FeatureFlagScan(_, _, _)
\* lines 721, 726-728: every match of reFlag from index i on
FeatureFlagScan(s, i, out) ==
    IF i > Len(s) THEN out
    ELSE LET t == TagMatchAt(s, i)
             on == t.at + 1 <= Len(s) /\ SubSeq(s, t.at, t.at + 1) = <<"o", "n">>
             off == t.at + 2 <= Len(s) /\ SubSeq(s, t.at, t.at + 2) = <<"o", "f", "f">>
         IN  IF t.ok /\ on THEN FeatureFlagScan(s, t.at + 2, MapPut(out, t.k, IntValue(1)))
             ELSE IF t.ok /\ off THEN FeatureFlagScan(s, t.at + 3, MapPut(out, t.k, IntValue(0)))
             ELSE FeatureFlagScan(s, i + 1, out)

\* lines 716-730
parseFeatures(s) ==
    IF s = <<>> THEN <<>> ELSE FeatureFlagScan(s, 1, FeatureNumScan(s, 1, <<>>))

\* The feature maps of the model: up to MaxFeatures entries with distinct
\* tags; a value is null, an integer (line 146: 0|1 or a number of a cvXX
\* feature), a boolean, a string or NaN.
TagLiga == <<"l", "i", "g", "a">>
TagKern == <<"k", "e", "r", "n">>
TagCv01 == <<"c", "v", "0", "1">>
FeatureTags == {TagLiga, TagKern, TagCv01}
FeatureValues ==
    {Num(FALSE, 0, 0), Num(FALSE, 1, 0), Num(FALSE, 12, 0), Num(TRUE, 3, 0),
     Bool(TRUE), Bool(FALSE), Null, NaN, Str(<<>>), Str(<<"o", "f", "f">>)}
FeatureEntries == {[k |-> k, v |-> v] : k \in FeatureTags, v \in FeatureValues}

RECURSIVE FeatureMapsOf(_)
FeatureMapsOf(n) ==
    IF n = 0 THEN {<<>>}
    ELSE LET shorter == FeatureMapsOf(n - 1)
         IN  shorter \cup {Append(m, e) : m \in {x \in shorter : Len(x) = n - 1},
                                           e \in FeatureEntries}
FeatureMaps ==
    {m \in FeatureMapsOf(MaxFeatures) : \A i, j \in 1..Len(m) : i # j => m[i].k # m[j].k}

InitFeat ==
    /\ supportsFontFace = TRUE
    /\ timeoutSet = TRUE
    /\ IdleLoad /\ IdleQuery /\ IdleAxis
    /\ IdleEmitter /\ IdleWait /\ IdleElem /\ IdleTheme
    /\ \E missing \in BOOLEAN, map \in FeatureMaps :
          /\ missing => map = <<>>
          /\ feat = [NoFeat EXCEPT !.phase = "features", !.missing = missing, !.map = map]

\* lines 84-98: featuresToString(features)
FeaturesToStringStep ==
    /\ feat.phase = "features"
    /\ feat' = [feat EXCEPT !.phase = "text", !.text = featuresToString(feat.missing, feat.map)]
    /\ UNCHANGED <<loadVars, queryVars, axisVars, emitter, wait, elem, theme>>

\* lines 716-730: parseFeatures of that text
ParseFeaturesStep ==
    /\ feat.phase = "text"
    /\ feat' = [feat EXCEPT !.phase = "parsed", !.parsed = parseFeatures(feat.text)]
    /\ UNCHANGED <<loadVars, queryVars, axisVars, emitter, wait, elem, theme>>

NextFeat ==
    \/ FeaturesToStringStep
    \/ ParseFeaturesStep

SpecFeat == InitFeat /\ [][NextFeat]_vars

\* ------------------------------------------------------- the EventEmitter
\* emitter.listeners is the Map of line 154: per type, the listeners in the
\* order of their registration (a listener registered twice is there twice).
\* A listener is a function of the caller's: each time it is invoked it
\* returns or throws, and it may call off or on before that.
EventTypes == {"preset", "load", "class"}
Listeners == 1..MaxListeners
Payloads == {"p1", "p2"}

\* the event a method of FontManager emits (lines 435, 455, 583)
EmittedBy(caller) ==
    CASE caller = "registerPreset" -> "preset"
      [] caller = "loadFont" -> "load"
      [] caller = "createClass" -> "class"
Callers == {"registerPreset", "loadFont", "createClass"}

NewEmitter ==
    [phase |-> "idle", listeners |-> [t \in EventTypes |-> <<>>], caller |-> "",
     type |-> "", payload |-> "", snap |-> <<>>, idx |-> 0, invoked |-> <<>>,
     errors |-> 0, returned |-> FALSE, emits |-> 0]

Registered(ls) == Len(ls["preset"]) + Len(ls["load"]) + Len(ls["class"])

\* lines 156-161
on(ls, type, fn) == [ls EXCEPT ![type] = Append(ls[type], fn)]

\* Array.prototype.indexOf, 0 when fn is not there
IndexOf(arr, fn) ==
    IF \E i \in 1..Len(arr) : arr[i] = fn
    THEN CHOOSE i \in 1..Len(arr) : arr[i] = fn /\ \A j \in 1..(i - 1) : arr[j] # fn
    ELSE 0

\* lines 162-167
off(ls, type, fn) ==
    LET i == IndexOf(ls[type], fn)
    IN  IF i = 0 THEN ls
        ELSE [ls EXCEPT ![type] = SubSeq(ls[type], 1, i - 1) \o SubSeq(ls[type], i + 1, Len(ls[type]))]

\* an iteration over the live array instead of its copy
EmitTargetLive(em) ==
    IF em.idx <= Len(em.listeners[em.type]) THEN em.listeners[em.type][em.idx] ELSE em.snap[em.idx]

\* line 171: the listener the loop over arr.slice() has come to
EmitTarget(em) == em.snap[em.idx]

\* on(type, fn) called outside an emit
OnCall ==
    /\ emitter.phase = "idle"
    /\ Registered(emitter.listeners) < MaxListeners
    /\ \E t \in EventTypes, fn \in Listeners :
          emitter' = [emitter EXCEPT !.listeners = on(emitter.listeners, t, fn)]
    /\ UNCHANGED <<loadVars, queryVars, axisVars, feat, wait, elem, theme>>

\* off(type, fn) called outside an emit
OffCall ==
    /\ emitter.phase = "idle"
    /\ \E t \in EventTypes, fn \in Listeners :
          /\ IndexOf(emitter.listeners[t], fn) # 0
          /\ emitter' = [emitter EXCEPT !.listeners = off(emitter.listeners, t, fn)]
    /\ UNCHANGED <<loadVars, queryVars, axisVars, feat, wait, elem, theme>>

\* lines 168-171: a method emits its event; emit returns at once when the
\* type has no listener, and takes its copy of the array otherwise
EmitCall ==
    /\ emitter.phase = "idle"
    /\ emitter.emits < MaxEmits
    /\ \E caller \in Callers, payload \in Payloads :
          LET arr == emitter.listeners[EmittedBy(caller)]
          IN  emitter' = [emitter EXCEPT
                  !.phase = IF arr = <<>> THEN "idle" ELSE "emitting",
                  !.caller = caller, !.type = EmittedBy(caller), !.payload = payload,
                  !.snap = arr, !.idx = 1, !.invoked = <<>>, !.errors = 0,
                  !.returned = (arr = <<>>), !.emits = emitter.emits + 1]
    /\ UNCHANGED <<loadVars, queryVars, axisVars, feat, wait, elem, theme>>

\* lines 172-177: the next listener is invoked with the payload.  It may
\* call off or on while it runs; when it throws, the catch logs the error.
EmitInvoke ==
    /\ emitter.phase = "emitting"
    /\ emitter.idx <= Len(emitter.snap)
    /\ \E throws \in BOOLEAN, does \in {"nothing", "off", "on"}, t \in EventTypes, fn \in Listeners :
          /\ does = "nothing" => t = "load" /\ fn = 1
          /\ does = "off" => IndexOf(emitter.listeners[t], fn) # 0
          /\ does = "on" => Registered(emitter.listeners) < MaxListeners
          /\ emitter' = [emitter EXCEPT
                !.invoked = Append(emitter.invoked, [fn |-> EmitTarget(emitter), payload |-> emitter.payload]),
                !.listeners = CASE does = "off" -> off(emitter.listeners, t, fn)
                                [] does = "on" -> on(emitter.listeners, t, fn)
                                [] OTHER -> emitter.listeners,
                !.errors = IF throws THEN emitter.errors + 1 ELSE emitter.errors,
                !.idx = emitter.idx + 1]
    /\ UNCHANGED <<loadVars, queryVars, axisVars, feat, wait, elem, theme>>

\* line 178: the loop is over, emit returns to the method that called it
EmitReturn ==
    /\ emitter.phase = "emitting"
    /\ emitter.idx > Len(emitter.snap)
    /\ emitter' = [emitter EXCEPT !.phase = "idle", !.returned = TRUE]
    /\ UNCHANGED <<loadVars, queryVars, axisVars, feat, wait, elem, theme>>

InitEmit ==
    /\ supportsFontFace = TRUE
    /\ timeoutSet = TRUE
    /\ IdleLoad /\ IdleQuery /\ IdleAxis
    /\ IdleFeat /\ IdleWait /\ IdleElem /\ IdleTheme
    /\ emitter = NewEmitter

NextEmit ==
    \/ OnCall
    \/ OffCall
    \/ EmitCall
    \/ EmitInvoke
    \/ EmitReturn

SpecEmit == InitEmit /\ [][NextEmit]_vars

\* ------------------------------------------------- FontLoader.waitFor alone
\* Time is performance.now() in whole units; widths are in half pixels, so
\* that "more than 0.5px" is "more than 1".
Times == 0..MaxTime
WaitTimeouts == {0, 1, 3}
BaseWidth == 20
ProbeWidths == {BaseWidth - 2, BaseWidth, BaseWidth + 1, BaseWidth + 3}

Abs(x) == IF x < 0 THEN 0 - x ELSE x
Earlier(a, b) == IF a < b THEN a ELSE b

NewWait ==
    [phase |-> "idle", now |-> 0, timeout |-> 0, timeoutAt |-> 0, baseWidth |-> BaseWidth,
     width |-> BaseWidth, polls |-> 0, scheduled |-> FALSE, resolves |-> 0,
     value |-> FALSE, probe |-> FALSE]

\* a tick that looks at the deadline before it looks at the width
WaitPollDeadlineFirst(w) ==
    IF w.now > w.timeoutAt
    THEN [w EXCEPT !.polls = w.polls + 1, !.scheduled = FALSE, !.phase = "resolved",
                   !.resolves = w.resolves + 1, !.value = FALSE, !.probe = FALSE]
    ELSE IF Abs(w.width - w.baseWidth) > 1
    THEN [w EXCEPT !.polls = w.polls + 1, !.scheduled = FALSE, !.phase = "resolved",
                   !.resolves = w.resolves + 1, !.value = TRUE, !.probe = FALSE]
    ELSE [w EXCEPT !.polls = w.polls + 1, !.scheduled = TRUE, !.phase = "polling"]

\* lines 298-312: tick, at time w.now with the probe w.width wide
WaitPoll(w) ==
    IF Abs(w.width - w.baseWidth) > 1
    THEN [w EXCEPT !.polls = w.polls + 1, !.scheduled = FALSE, !.phase = "resolved",
                   !.resolves = w.resolves + 1, !.value = TRUE, !.probe = FALSE]
    ELSE IF w.now > w.timeoutAt
    THEN [w EXCEPT !.polls = w.polls + 1, !.scheduled = FALSE, !.phase = "resolved",
                   !.resolves = w.resolves + 1, !.value = FALSE, !.probe = FALSE]
    ELSE [w EXCEPT !.polls = w.polls + 1, !.scheduled = TRUE, !.phase = "polling"]

\* lines 270-297, 313: waitFor is called.  The probe is measured in
\* monospace (baseWidth), then given the family: its width is the base
\* width or, when the font is already active, another one.  The deadline is
\* set and the first tick runs at once.
WaitForCall ==
    /\ wait.phase = "idle"
    /\ \E width \in ProbeWidths :
          wait' = WaitPoll([wait EXCEPT !.probe = TRUE, !.width = width,
                                        !.timeoutAt = wait.now + wait.timeout])
    /\ UNCHANGED <<loadVars, queryVars, axisVars, feat, emitter, elem, theme>>

\* line 311: the animation frame asked for fires, later than the tick that
\* asked for it, and runs the next tick
WaitFrame ==
    /\ wait.phase = "polling"
    /\ wait.scheduled
    /\ \E dt \in 1..2 :
          wait' = WaitPoll([wait EXCEPT !.now = Earlier(wait.now + dt, MaxTime)])
    /\ UNCHANGED <<loadVars, queryVars, axisVars, feat, emitter, elem, theme>>

\* the font becomes active, or the page is laid out anew: the width of the
\* probe changes between two ticks
ProbeWidthChanges ==
    /\ wait.phase = "polling"
    /\ \E width \in ProbeWidths :
          /\ width # wait.width
          /\ wait' = [wait EXCEPT !.width = width]
    /\ UNCHANGED <<loadVars, queryVars, axisVars, feat, emitter, elem, theme>>

InitWait ==
    /\ supportsFontFace = TRUE
    /\ timeoutSet = TRUE
    /\ IdleLoad /\ IdleQuery /\ IdleAxis
    /\ IdleFeat /\ IdleEmitter /\ IdleElem /\ IdleTheme
    /\ \E now \in 0..1, timeout \in WaitTimeouts :
          wait = [NewWait EXCEPT !.now = now, !.timeout = timeout]

NextWait ==
    \/ WaitForCall
    \/ WaitFrame
    \/ ProbeWidthChanges

\* animation frames keep firing
SpecWait == InitWait /\ [][NextWait]_vars /\ WF_vars(WaitFrame)

\* -------------------------------- an element: apply, set, bind and animate
\* elem.fvs and elem.ffs are el.style.fontVariationSettings and
\* el.style.fontFeatureSettings as characters; elem.style is the state.style
\* of bindElement; elem.anims are the animateAxis runs; elem.due are the
\* ticks the animation frame that fired has still to run; elem.op is the
\* last operation and its arguments.
Undefined == [kind |-> "undef", neg |-> FALSE, m |-> 0, d |-> 0, str |-> <<>>]

\* A style as far as lines 536-545 read it: axes and features, each absent
\* (undefined) or a map.
ElemStyle(axesGiven, axesMap, featuresGiven, featuresMap) ==
    [axesGiven |-> axesGiven, axes |-> axesMap,
     featuresGiven |-> featuresGiven, features |-> featuresMap]

\* an assignment that leaves the settings alone when the style has no axes
StyleAxisTextKept(style) ==
    IF style.axesGiven /\ Len(style.axes) # 0 THEN axisToString(FALSE, style.axes) ELSE elem.fvs

\* lines 536-540: Object.keys(axes).length counts the null entries too
StyleAxisText(style) ==
    IF style.axesGiven /\ Len(style.axes) # 0 THEN axisToString(FALSE, style.axes) ELSE <<>>

\* lines 541-545
StyleFeatureText(style) ==
    IF style.featuresGiven /\ Len(style.features) # 0
    THEN featuresToString(FALSE, style.features) ELSE <<>>

\* lines 610-614
setAxis(fvs, axisName, value) == axisToString(FALSE, MapPut(parseAxis(fvs), axisName, value))

\* lines 616-619
getAxis(fvs, axisName) ==
    IF MapHas(parseAxis(fvs), axisName) THEN MapGet(parseAxis(fvs), axisName) ELSE Undefined

\* lines 621-625
setFeature(ffs, featureName, value) ==
    featuresToString(FALSE, MapPut(parseFeatures(ffs), featureName, value))

\* lines 627-630
getFeature(ffs, featureName) ==
    IF MapHas(parseFeatures(ffs), featureName) THEN MapGet(parseFeatures(ffs), featureName)
    ELSE Undefined

\* lines 772-774: easeInOut(e / D) as a number of D * D parts
easeInOut(e, D) == IF 2 * e < D THEN 2 * e * e ELSE 4 * e * D - 2 * e * e - D * D

\* line 638: clamp((now - start) / duration, 0, 1) as a number of D parts
AnimT(now, start, D) == IF now - start < 0 THEN 0 ELSE IF now - start > D THEN D ELSE now - start

\* line 639: from + (to - from) * easing(t), for a duration D whose square
\* divides 10000
AnimValue(from, to, e, D) ==
    LET x == from * D * D + (to - from) * easeInOut(e, D)
    IN  Normal(x < 0, Abs(x) * (10000 \div (D * D)), 4)

NoAnim ==
    [phase |-> "none", axis |-> <<>>, from |-> 0, to |-> 0, duration |-> 1, start |-> 0,
     e |-> 0, frames |-> 0, sets |-> 0, updates |-> 0, val |-> Undefined,
     completes |-> 0, completeVal |-> Undefined]

\* the last operation on the element: its name, the axis or feature and the
\* value it writes, the run it belongs to and, for a style that is applied,
\* whether its axes and its features are absent or empty
NoOp ==
    [name |-> "none", axis |-> <<>>, v |-> Undefined, anim |-> 0,
     noAxes |-> FALSE, noFeatures |-> FALSE]
Op(name, axis, v, anim) == [NoOp EXCEPT !.name = name, !.axis = axis, !.v = v, !.anim = anim]
Applied(name, style) ==
    [NoOp EXCEPT !.name = name,
                 !.noAxes = (~style.axesGiven \/ style.axes = <<>>),
                 !.noFeatures = (~style.featuresGiven \/ style.features = <<>>)]

Anims == 1..MaxAnims

NewElem ==
    [phase |-> "element", fvs |-> <<>>, ffs |-> <<>>, bound |-> FALSE,
     style |-> ElemStyle(FALSE, <<>>, FALSE, <<>>),
     anims |-> [a \in Anims |-> NoAnim], due |-> <<>>, now |-> 0, op |-> NoOp]

\* the arguments of the calls
ElemTags == {TagWght, TagSlnt}
SetValues == {Num(FALSE, 500, 0), Num(FALSE, 1, 7)}
StyleAxes == {<<>>, <<[k |-> TagWght, v |-> Num(FALSE, 400, 0)]>>}
StyleFeatures == {<<[k |-> TagLiga, v |-> Num(FALSE, 1, 0)]>>}
ElemStyles ==
    {ElemStyle(ag, am, fg, fm) :
        ag \in BOOLEAN, am \in StyleAxes, fg \in BOOLEAN, fm \in StyleFeatures \cup {<<>>}}
AnimRuns ==
    {[axis |-> TagWght, from |-> 100, to |-> 900], [axis |-> TagSlnt, from |-> 0, to |-> 0 - 10]}
AnimDurations == {2}

\* between two tasks: no animation frame is running its callbacks
ElemQuiet == elem.phase = "element" /\ elem.due = <<>>

\* lines 511-549
ApplyToElement ==
    /\ ElemQuiet
    /\ \E style \in ElemStyles :
          /\ ~style.axesGiven => style.axes = <<>>
          /\ style.featuresGiven <=> style.features # <<>>
          /\ elem' = [elem EXCEPT !.fvs = StyleAxisText(style), !.ffs = StyleFeatureText(style),
                                  !.op = Applied("applyToElement", style)]
    /\ UNCHANGED <<loadVars, queryVars, axisVars, feat, emitter, wait, theme>>

\* lines 651-653: bindElement(el, style)
BindElement ==
    /\ ElemQuiet
    /\ ~elem.bound
    /\ \E style \in ElemStyles :
          /\ ~style.axesGiven => style.axes = <<>>
          /\ style.featuresGiven <=> style.features # <<>>
          /\ elem' = [elem EXCEPT !.bound = TRUE, !.style = style,
                                  !.fvs = StyleAxisText(style), !.ffs = StyleFeatureText(style),
                                  !.op = Applied("bindElement", style)]
    /\ UNCHANGED <<loadVars, queryVars, axisVars, feat, emitter, wait, theme>>

\* lines 655-662: update(patch).  hasAxes, hasFeatures: the patch has the
\* key; Object.assign then overwrites that part of state.style.
BindUpdate ==
    /\ ElemQuiet
    /\ elem.bound
    /\ \E hasAxes \in BOOLEAN, hasFeatures \in BOOLEAN, patch \in ElemStyles :
          /\ ~patch.axesGiven => patch.axes = <<>>
          /\ patch.featuresGiven <=> patch.features # <<>>
          /\ ~hasAxes => ~patch.axesGiven
          /\ ~hasFeatures => ~patch.featuresGiven
          /\ LET merged ==
                     ElemStyle(IF hasAxes THEN patch.axesGiven ELSE elem.style.axesGiven,
                               IF hasAxes THEN patch.axes ELSE elem.style.axes,
                               IF hasFeatures THEN patch.featuresGiven ELSE elem.style.featuresGiven,
                               IF hasFeatures THEN patch.features ELSE elem.style.features)
             IN  elem' = [elem EXCEPT !.style = merged,
                                      !.fvs = StyleAxisText(merged), !.ffs = StyleFeatureText(merged),
                                      !.op = Applied("update", merged)]
    /\ UNCHANGED <<loadVars, queryVars, axisVars, feat, emitter, wait, theme>>

\* lines 610-614: setAxis(el, axisName, value) called by the page
SetAxisCall ==
    /\ ElemQuiet
    /\ \E axisName \in ElemTags, value \in SetValues :
          elem' = [elem EXCEPT !.fvs = setAxis(elem.fvs, axisName, value),
                               !.op = Op("setAxis", axisName, value, 0)]
    /\ UNCHANGED <<loadVars, queryVars, axisVars, feat, emitter, wait, theme>>

\* lines 621-625: setFeature(el, featureName, value) called by the page
SetFeatureCall ==
    /\ ElemQuiet
    /\ \E value \in {Num(FALSE, 1, 0)} :
          elem' = [elem EXCEPT !.ffs = setFeature(elem.ffs, TagLiga, value),
                               !.op = Op("setFeature", TagLiga, value, 0)]
    /\ UNCHANGED <<loadVars, queryVars, axisVars, feat, emitter, wait, theme>>

\* lines 635-636, 645: animateAxis(el, axisName, from, to, {duration}); the
\* first tick is asked for
AnimateAxisCall ==
    /\ ElemQuiet
    /\ \E a \in Anims, run \in AnimRuns, duration \in AnimDurations :
          /\ elem.anims[a].phase = "none"
          /\ \A b \in 1..(a - 1) : elem.anims[b].phase # "none"
          /\ elem.now + duration <= MaxTime
          /\ elem' = [elem EXCEPT
                !.anims[a] = [NoAnim EXCEPT !.phase = "running", !.axis = run.axis,
                                            !.from = run.from, !.to = run.to,
                                            !.duration = duration, !.start = elem.now],
                !.op = Op("animateAxis", run.axis, Undefined, a)]
    /\ UNCHANGED <<loadVars, queryVars, axisVars, feat, emitter, wait, theme>>

\* the runs whose tick is asked for, in the order of their requests
RECURSIVE RunningFrom(_, _)
RunningFrom(anims, a) ==
    IF a > MaxAnims THEN <<>>
    ELSE (IF anims[a].phase = "running" THEN <<a>> ELSE <<>>) \o RunningFrom(anims, a + 1)

\* an animation frame fires, later than the last one: the ticks asked for
\* are due
AnimFrame ==
    /\ ElemQuiet
    /\ RunningFrom(elem.anims, 1) # <<>>
    /\ \E dt \in 1..2 :
          elem' = [elem EXCEPT !.now = Earlier(elem.now + dt, MaxTime),
                               !.due = RunningFrom(elem.anims, 1),
                               !.op = Op("frame", <<>>, Undefined, 0)]
    /\ UNCHANGED <<loadVars, queryVars, axisVars, feat, emitter, wait, theme>>

\* a tick that never stops asking for frames
AnimTickedForever(an, now) ==
    LET e == AnimT(now, an.start, an.duration)
        val == AnimValue(an.from, an.to, e, an.duration)
    IN  [an EXCEPT !.e = e, !.val = val, !.frames = an.frames + 1,
                   !.sets = an.sets + 1, !.updates = an.updates + 1,
                   !.completes = IF e < an.duration THEN an.completes ELSE an.completes + 1,
                   !.completeVal = IF e < an.duration THEN an.completeVal ELSE val]

\* lines 637-644: the run after its tick at time now
AnimTicked(an, now) ==
    LET e == AnimT(now, an.start, an.duration)
        val == AnimValue(an.from, an.to, e, an.duration)
    IN  [an EXCEPT !.e = e, !.val = val, !.frames = an.frames + 1,
                   !.sets = an.sets + 1, !.updates = an.updates + 1,
                   !.phase = IF e < an.duration THEN "running" ELSE "done",
                   !.completes = IF e < an.duration THEN an.completes ELSE an.completes + 1,
                   !.completeVal = IF e < an.duration THEN an.completeVal ELSE val]

\* lines 637-644: the frame runs the next tick that is due
AnimTick ==
    /\ elem.phase = "element"
    /\ elem.due # <<>>
    /\ LET a == Head(elem.due)
           an == AnimTicked(elem.anims[a], elem.now)
       IN  elem' = [elem EXCEPT !.anims[a] = an,
                                !.fvs = setAxis(elem.fvs, an.axis, an.val),
                                !.due = Tail(elem.due),
                                !.op = Op("tick", an.axis, an.val, a)]
    /\ UNCHANGED <<loadVars, queryVars, axisVars, feat, emitter, wait, theme>>

InitElem ==
    /\ supportsFontFace = TRUE
    /\ timeoutSet = TRUE
    /\ IdleLoad /\ IdleQuery /\ IdleAxis
    /\ IdleFeat /\ IdleEmitter /\ IdleWait /\ IdleTheme
    /\ elem = NewElem

NextElem ==
    \/ ApplyToElement
    \/ BindElement
    \/ BindUpdate
    \/ SetAxisCall
    \/ SetFeatureCall
    \/ AnimateAxisCall
    \/ AnimFrame
    \/ AnimTick

SpecElem == InitElem /\ [][NextElem]_vars

\* ---------------------------------------------------- the theme toggle
\* src/data/index.ts and src/data/index.js: the same script, compiled by hand.
\* theme holds the page the script runs in: the root element's data-theme
\* ("none" when the attribute is absent), the button, localStorage, the
\* colour scheme the platform prefers, and the script's position.
ThemeKey == "ml-tools-theme"
OtherKey == "ml-tools-lang"
StorageKeys == {ThemeKey, OtherKey}
\* getItem returns null ("null" here) for a key that is not stored
StoredValues == {"null", "light", "dark", "auto"}
Variants == {"ts", "js"}

NewTheme(variant, button, saved, prefers, media, markup) ==
    [phase |-> "loaded", variant |-> variant, button |-> button,
     storage |-> [k \in StorageKeys |-> IF k = ThemeKey THEN saved ELSE "ko"],
     prefersLight |-> prefers, matchMedia |-> media, markup |-> markup,
     dataTheme |-> markup, ariaPressed |-> "none", text |-> "",
     listeners |-> 0, clicks |-> 0, sinceLoad |-> 0, loads |-> 1]

\* an applyTheme that marks the button pressed for the dark theme
applyThemePressedOnDark(th, t) ==
    [th EXCEPT !.dataTheme = IF t = "light" THEN "light" ELSE "none",
               !.ariaPressed = IF t = "light" THEN "false" ELSE "true",
               !.text = IF t = "light" THEN "light label" ELSE "dark label"]

\* index.js lines 7-9 with btn null: the root element is changed, then
\* btn.setAttribute throws
applyThemeRootOnly(th, t) ==
    [th EXCEPT !.dataTheme = IF t = "light" THEN "light" ELSE "none"]

\* index.ts lines 14-22, index.js lines 6-11
applyTheme(th, t) ==
    [th EXCEPT !.dataTheme = IF t = "light" THEN "light" ELSE "none",
               !.ariaPressed = IF t = "light" THEN "true" ELSE "false",
               !.text = IF t = "light" THEN "light label" ELSE "dark label"]

\* index.ts lines 29-32, index.js line 18: window.matchMedia && ...matches
PrefersLight(th) == th.matchMedia /\ th.prefersLight

\* index.ts lines 25-33: a saved value other than 'light' and 'dark' is ignored
InitialThemeTs(th) ==
    LET saved == th.storage[ThemeKey]
    IN  IF saved = "light" \/ saved = "dark" THEN saved
        ELSE IF PrefersLight(th) THEN "light" ELSE "dark"

\* index.js lines 15-20: every non-empty saved value is applied as it is
InitialThemeJs(th) ==
    LET saved == th.storage[ThemeKey]
    IN  IF saved # "null" THEN saved
        ELSE IF PrefersLight(th) THEN "light" ELSE "dark"

\* the script runs, once per document
ThemeInit ==
    /\ theme.phase = "loaded"
    /\ theme' =
          IF theme.variant = "ts"
          THEN IF ~theme.button
               THEN \* index.ts lines 7-10: console.error and return
                    [theme EXCEPT !.phase = "nobutton"]
               ELSE [applyTheme(theme, InitialThemeTs(theme)) EXCEPT
                        !.phase = "ready", !.listeners = 1]
          ELSE IF ~theme.button
               THEN \* index.js line 9: btn is null, setAttribute throws after
                    \* the root element was changed
                    [applyThemeRootOnly(theme, InitialThemeJs(theme)) EXCEPT !.phase = "failed"]
               ELSE [applyTheme(theme, InitialThemeJs(theme)) EXCEPT
                        !.phase = "ready", !.listeners = 1]
    /\ UNCHANGED <<loadVars, queryVars, axisVars, feat, emitter, wait, elem>>

\* index.ts lines 37-38, index.js lines 23-24
CurrentTheme(th) == IF th.dataTheme = "light" THEN "light" ELSE "dark"
NextTheme(th) == IF CurrentTheme(th) = "light" THEN "dark" ELSE "light"

\* index.ts lines 35-41, index.js lines 22-27: the click listener
ThemeClick ==
    /\ theme.phase = "ready" /\ theme.listeners = 1
    /\ theme.clicks < MaxClicks
    /\ LET next == NextTheme(theme)
       IN  theme' = [applyTheme(theme, next) EXCEPT
                        !.storage[ThemeKey] = next,
                        !.clicks = theme.clicks + 1,
                        !.sinceLoad = theme.sinceLoad + 1]
    /\ UNCHANGED <<loadVars, queryVars, axisVars, feat, emitter, wait, elem>>

\* the page is loaded again: a new document from the same markup, the same
\* localStorage
ThemeReload ==
    /\ theme.phase # "none" /\ theme.phase # "loaded"
    /\ theme.loads < MaxLoads
    /\ theme' = [theme EXCEPT !.phase = "loaded", !.dataTheme = theme.markup,
                              !.ariaPressed = "none", !.text = "",
                              !.listeners = 0, !.sinceLoad = 0,
                              !.loads = theme.loads + 1]
    /\ UNCHANGED <<loadVars, queryVars, axisVars, feat, emitter, wait, elem>>

\* the platform's preferred colour scheme changes; the script does not listen
PreferenceChange ==
    /\ theme.phase = "ready"
    /\ theme.sinceLoad > 0
    /\ theme' = [theme EXCEPT !.prefersLight = ~theme.prefersLight]
    /\ UNCHANGED <<loadVars, queryVars, axisVars, feat, emitter, wait, elem>>

InitTheme ==
    /\ supportsFontFace = TRUE /\ timeoutSet = TRUE
    /\ IdleLoad /\ IdleQuery /\ IdleAxis
    /\ IdleFeat /\ IdleEmitter /\ IdleWait /\ IdleElem
    /\ \E variant \in Variants, button \in BOOLEAN, saved \in StoredValues,
          prefers \in BOOLEAN, media \in BOOLEAN, markup \in {"none", "light"} :
          theme = NewTheme(variant, button, saved, prefers, media, markup)

NextThemeStep ==
    \/ ThemeInit
    \/ ThemeClick
    \/ ThemeReload
    \/ PreferenceChange

SpecTheme == InitTheme /\ [][NextThemeStep]_vars

\* ================================================================== claims
LoadEvents(c) == {i \in 1..Len(events) : events[i].type = "load" /\ events[i].call = c}
ReadyEvents(c) == {i \in 1..Len(events) : events[i].type = "ready" /\ events[i].call = c}
PastLoad(c) == pc[c] \in {"awaitReady", "readySettled", "done"}

\* ---- C1
C1_Events ==
    \A c \in Calls :
        /\ Cardinality(LoadEvents(c)) <= 1
        /\ Cardinality(ReadyEvents(c)) <= 1
        /\ \A j \in ReadyEvents(c) : \E i \in LoadEvents(c) : i < j
        /\ PastLoad(c) => /\ LoadEvents(c) # {}
                          /\ lres[c].status \in {"loaded", "injected", "failed"}
        /\ pc[c] = "done" => ReadyEvents(c) # {}

C1_EmitStep ==
    \A c \in Calls :
        (LoadEvents(c) = {} /\ LoadEvents(c)' # {}) =>
            /\ RegistryHas(registry', Norm(c).name)
            /\ RegistryGet(registry', Norm(c).name) = Norm(c)
            /\ ReadyEvents(c)' = {}

\* C1: for every loadFont call with a valid descriptor and every load
\* outcome, the normalized descriptor is in the registry under its name when
\* 'load' is emitted, 'load' comes strictly before 'ready' for the same call,
\* and neither is emitted twice for one call.
C1_LoadBeforeReady == []C1_Events /\ [][C1_EmitStep]_vars

C1_Witness ==
    \E c \in Calls :
        /\ pc[c] = "done"
        /\ lres[c].status = "injected"
        /\ LoadEvents(c) # {} /\ ReadyEvents(c) # {}

\* ---- C2
\* C2: once the timeout has elapsed and its callback has run, a load whose
\* platform promise has not settled is no longer pending: it has ended as
\* failed (or loaded, or injected).
C2_TimeoutEndsPending ==
    \A c \in Calls :
        (timer[c] = "fired" /\ platform[c] = "pending") =>
            lres[c].status \in {"loaded", "injected", "failed"}

\* ---- C3
\* C3: a call whose platform load rejected is never rejected itself; its
\* result is {status: 'failed', font: null}, the @font-face rule is in the
\* style sheet, the 'load' event carries that result, and the call returns it.
C3_FailureIsAResult ==
    \A c \in Calls :
        platform[c] = "rejected" =>
            /\ pc[c] # "rejected"
            /\ pc[c] \in {"loadSettled", "awaitReady", "readySettled", "done"} =>
                  /\ lres[c].status = "failed" /\ lres[c].font = 0
                  /\ buildFontFaceCSS(Normalize(desc[c])) \in injector.rules
                  /\ \E i \in 1..Len(injector.nodes) :
                        injector.nodes[i] = buildFontFaceCSS(Normalize(desc[c]))
            /\ PastLoad(c) =>
                  \A i \in LoadEvents(c) : events[i].result = lres[c]
            /\ pc[c] = "done" => Returned(c).result.status = "failed"

C3_Witness ==
    \E c \in Calls :
        /\ pc[c] = "done"
        /\ platform[c] = "rejected"
        /\ perr[c] = "NetworkError"
        /\ Returned(c).result.status = "failed"

\* ---- C4
\* the descriptors the claim names: missing, without a name, or with a src
\* that is not a non-empty array
C4_Malformed(d) == ~d.present \/ d.name = "" \/ ~d.srcIsArray \/ Len(d.src) = 0

C4_Rejected ==
    \A c \in Calls :
        (pc[c] # "idle" /\ C4_Malformed(desc[c])) =>
            /\ pc[c] = "rejected"
            /\ platform[c] = "none" /\ timer[c] = "none" /\ lres[c] = NoResult
            /\ c \notin documentFonts
            /\ \A i \in 1..Len(events) : events[i].call # c

C4_CallStep ==
    \A c \in Calls :
        (pc[c] = "idle" /\ pc'[c] # "idle" /\ C4_Malformed(desc'[c])) =>
            UNCHANGED <<registry, injector, events, documentFonts, platform,
                        perr, timer, lres, wok, nclass>>

\* C4: loadFont with a malformed descriptor fails with the validation error
\* and changes nothing: no FontFace, no injection, no registry entry, no
\* 'load' and no 'ready'.
C4_InvalidChangesNothing == []C4_Rejected /\ [][C4_CallStep]_vars

C4_Witness ==
    \E c \in Calls :
        /\ pc[c] = "rejected"
        /\ desc[c] = DSrcEmpty
        /\ registry # <<>>

\* ---- C5
BatchValid == \A i \in 1..Len(batch.list) : ~C4_Malformed(batch.list[i])

C5_Order ==
    /\ batch.status \in {"pending", "fulfilled", "rejected"} =>
          /\ Len(batch.ids) = Len(batch.list)
          /\ \A i \in 1..Len(batch.ids) : pc[batch.ids[i]] # "idle"
    /\ batch.status = "mapping" =>
          \A i \in 1..Len(batch.ids) :
              pc[batch.ids[i]] \in {"awaitLoad", "loadSettled", "rejected"}
    /\ batch.status = "fulfilled" =>
          /\ Len(batch.value) = Len(batch.list)
          /\ \A i \in 1..Len(batch.list) :
                /\ batch.value[i].name = batch.list[i].name
                /\ batch.value[i].result = lres[batch.ids[i]]
                /\ batch.value[i].ok = wok[batch.ids[i]]
                /\ ReadyEvents(batch.ids[i]) # {}

C5_Ready ==
    \A c \in Calls :
        (batch.status = "pending" /\ BatchValid /\ \E i \in 1..Len(batch.ids) : batch.ids[i] = c)
            ~> (ReadyEvents(c) # {})

C6_RejectsIffInvalid ==
    LET anyInvalid == \E i \in 1..Len(batch.list) : C4_Malformed(batch.list[i])
    IN  /\ batch.status = "rejected" => anyInvalid
        /\ batch.status = "fulfilled" => ~anyInvalid
        /\ (batch.status = "pending" /\ anyInvalid) =>
              \E i \in 1..Len(batch.ids) : pc[batch.ids[i]] = "rejected"
        /\ \A c \in Calls : pc[c] = "rejected" => C4_Malformed(desc[c])

C6_Witness ==
    /\ batch.status = "fulfilled"
    /\ Len(batch.value) = 2
    /\ batch.value[1].result.status = "failed"
    /\ ~batch.value[2].ok

\* ---- C7
NodeSet == {injector.nodes[i] : i \in 1..Len(injector.nodes)}

C7_Nodes ==
    /\ \A i, j \in 1..Len(injector.nodes) : injector.nodes[i] = injector.nodes[j] => i = j
    /\ NodeSet = injector.rules
    /\ injector.created <= 1
    /\ injector.styleEl <=> injector.created = 1
    /\ injector.nodes # <<>> => injector.styleEl

C7_InjectStep ==
    \/ injector'.nodes = injector.nodes
    \/ /\ Len(injector'.nodes) = Len(injector.nodes) + 1
       /\ SubSeq(injector'.nodes, 1, Len(injector.nodes)) = injector.nodes
       /\ injector'.nodes[Len(injector'.nodes)] \notin NodeSet

\* C7: every distinct CSS text is in exactly one appended node, the nodes are
\* in the order of first injection, injecting a text again appends nothing,
\* and at most one style element is created.
C7_InjectOnce == []C7_Nodes /\ [][C7_InjectStep]_vars

\* two loads of the same descriptor failed: one rule
C7_Witness ==
    /\ \A c \in {1, 2} : lres[c].status = "failed" /\ desc[c] = DNoto
    /\ Len(injector.nodes) = 1

\* ---- C8
\* the desired languages: those given, the default language when none is
C8_Desired ==
    IF query.criteria.langsGiven /\ query.criteria.languages # <<>>
    THEN {query.criteria.languages[i] : i \in 1..Len(query.criteria.languages)}
    ELSE {defaultLanguage}

\* the registered fonts other than the primary that declare a desired language
C8_Tagged(f) ==
    /\ f.name # query.primary
    /\ \E i \in 1..Len(f.languages) : f.languages[i] \in C8_Desired

C8_Names ==
    LET others == SelectSeq(registry, C8_Tagged)
    IN  <<query.primary>>
        \o [i \in 1..Len(others) |-> others[i].name]
        \o (IF query.fallbackGiven THEN query.fallback ELSE defaultFallback)

C8_DefaultChainText ==
    <<"system-ui", ", ", "\"", "Segoe UI", "\"", ", ", "\"", "Apple SD Gothic Neo", "\"", ", ",
      "\"", "Noto Sans KR", "\"", ", ", "sans-serif">>

\* composeFamily('Inter', undefined, ['ko']) with a registered 'Noto Sans KR'
\* tagged 'ko' that no other tagged font precedes
C8_Example ==
    /\ query.op = "composeFamily"
    /\ query.primary = "Inter"
    /\ ~query.fallbackGiven
    /\ query.criteria.langsGiven /\ query.criteria.languages = <<"ko">>
    /\ \E i \in 1..Len(registry) :
          /\ registry[i].name = "Noto Sans KR"
          /\ SeqHas(registry[i].languages, "ko")
          /\ \A j \in 1..(i - 1) : registry[j].name = "Inter" \/ ~SeqHas(registry[j].languages, "ko")

\* C8: composeFamily(primary, fallback, languages) returns the primary, then
\* every other registered font that declares one of the desired languages
\* (the default language when languages is absent or empty) in registry
\* order, then the explicit fallback chain or else the default chain; with
\* 'Noto Sans KR' tagged 'ko' registered, composeFamily('Inter', undefined,
\* ['ko']) has it right after 'Inter' and before the default chain.
C8_FamilyList ==
    /\ (query.op = "composeFamily" /\ query.primary # "") =>
          query.text = Join([i \in 1..Len(C8_Names) |-> cssEscape(C8_Names[i])], ", ")
    /\ C8_Example =>
          /\ SubSeq(query.text, 1, 5) = <<"Inter", ", ", "\"", "Noto Sans KR", "\"">>
          /\ Len(query.text) >= 6 + Len(C8_DefaultChainText)
          /\ SubSeq(query.text, Len(query.text) - Len(C8_DefaultChainText) + 1, Len(query.text))
                = C8_DefaultChainText

C8_Witness ==
    /\ C8_Example
    /\ Len(registry) = 2
    /\ registry[1].name = "Inter" /\ registry[1].languages = <<"en", "ko">>
    /\ registry[2].name = "Noto Sans KR"
    /\ query.text = <<"Inter", ", ", "\"", "Noto Sans KR", "\"", ", ">> \o C8_DefaultChainText

\* ---- C9
C9_Languages == IF query.criteria.langsGiven THEN query.criteria.languages ELSE <<defaultLanguage>>
C9_Variable == query.criteria.variable # "false"

\* the weight is a "<min> <max>" string, and its two numbers
C9_Space(w) == CHOOSE i \in 1..Len(w.str) : w.str[i] = " "
C9_IsRange(w) ==
    /\ w.kind = "str"
    /\ \E i \in 2..(Len(w.str) - 1) :
          /\ w.str[i] = " "
          /\ \A j \in 1..Len(w.str) : j # i => w.str[j] \in Digits
C9_Min(w) == DigitsVal(SubSeq(w.str, 1, C9_Space(w) - 1))
C9_Max(w) == DigitsVal(SubSeq(w.str, C9_Space(w) + 1, Len(w.str)))

C9_LangCount(f) ==
    Cardinality({i \in 1..Len(C9_Languages) : SeqHas(f.languages, C9_Languages[i])})
C9_LangOk(f) == f.languages = <<>> \/ C9_LangCount(f) > 0
C9_VarOk(f) == C9_Variable => C9_IsRange(f.weight)
C9_PreferOk(f) == query.criteria.prefer = "" \/ NamePrefers(f.name, query.criteria.prefer)

\* the requested range lies within the font's weight range; a fixed weight
\* w is the range from w to w
C9_ContainsRequested(f) ==
    query.criteria.rangeGiven =>
        IF C9_IsRange(f.weight)
        THEN C9_Min(f.weight) <= query.criteria.min /\ query.criteria.max <= C9_Max(f.weight)
        ELSE IF f.weight.kind = "num"
        THEN f.weight.num <= query.criteria.min /\ query.criteria.max <= f.weight.num
        ELSE TRUE

\* the requested range lies within the range of a "<min> <max>" weight; a
\* fixed weight lies within the requested range
C9_WeightFits(f) ==
    query.criteria.rangeGiven =>
        IF C9_IsRange(f.weight)
        THEN C9_Min(f.weight) <= query.criteria.min /\ query.criteria.max <= C9_Max(f.weight)
        ELSE IF f.weight.kind = "num"
        THEN query.criteria.min <= f.weight.num /\ f.weight.num <= query.criteria.max
        ELSE TRUE

\* a comes before b in the ranking
C9_Before(a, b) ==
    LET av == IF C9_IsRange(a.weight) THEN 1 ELSE 0
        bv == IF C9_IsRange(b.weight) THEN 1 ELSE 0
        ap == IF C9_PreferOk(a) THEN 1 ELSE 0
        bp == IF C9_PreferOk(b) THEN 1 ELSE 0
    IN  \/ av > bv
        \/ av = bv /\ C9_LangCount(a) > C9_LangCount(b)
        \/ av = bv /\ C9_LangCount(a) = C9_LangCount(b) /\ ap > bp
        \/ av = bv /\ C9_LangCount(a) = C9_LangCount(b) /\ ap = bp
              /\ localeCompare(a.name, b.name) < 0

C9_Ranked ==
    /\ \A i, j \in 1..Len(query.fonts) : i < j => C9_Before(query.fonts[i], query.fonts[j])
    /\ C9_Variable => \A i \in 1..Len(query.fonts) : query.fonts[i].weight.kind # "num"

\* C9 as stated: select returns exactly the registered fonts that match the
\* languages, have a "<min> <max>" weight when variable is true, have a
\* weight range that contains the requested weightRange, and hold the
\* preference in their name; ranked by variable weight, language count,
\* preference and name; never a fixed weight with variable true.
C9_SelectContains ==
    query.op = "select" =>
        /\ {query.fonts[i] : i \in 1..Len(query.fonts)}
              = {registry[i] : i \in {j \in 1..Len(registry) :
                    /\ C9_LangOk(registry[j]) /\ C9_VarOk(registry[j])
                    /\ C9_ContainsRequested(registry[j]) /\ C9_PreferOk(registry[j])}}
        /\ C9_Ranked

\* C9, amended: the weight filter asks that the requested weightRange lies
\* within the range of a "<min> <max>" weight, and that a fixed numeric
\* weight lies within the requested weightRange; a font without a weight
\* passes it.  The other filters, the ranking and the last sentence are as
\* stated (variable counts as true when it is not given).
C9_SelectFits ==
    query.op = "select" =>
        /\ {query.fonts[i] : i \in 1..Len(query.fonts)}
              = {registry[i] : i \in {j \in 1..Len(registry) :
                    /\ C9_LangOk(registry[j]) /\ C9_VarOk(registry[j])
                    /\ C9_WeightFits(registry[j]) /\ C9_PreferOk(registry[j])}}
        /\ C9_Ranked

C9_Witness ==
    /\ query.op = "select"
    /\ query.criteria.variable = "false"
    /\ query.criteria.rangeGiven /\ query.criteria.min = 300 /\ query.criteria.max = 500
    /\ Len(query.fonts) = 2
    /\ C9_IsRange(query.fonts[1].weight)
    /\ query.fonts[2].weight = NumWeight(400)

\* ---- C10
C10_NonNull == {i \in 1..Len(axes) : axes[i].v.kind # "null"}
C10_Number(v) == IF v.kind = "num" THEN v ELSE parseFloat(v.str)

\* C10: parseAxis(axisToString(axes)) has exactly the keys of the non-null
\* entries of axes, each with the number of its entry (a string entry parsed
\* as a number); an absent or empty map gives the empty string.
C10_RoundTrip ==
    /\ (axisPhase \in {"text", "parsed"} /\ (axesMissing \/ axes = <<>>)) => axisText = <<>>
    /\ axisPhase = "parsed" =>
          /\ Len(axisParsed) = Cardinality(C10_NonNull)
          /\ MapKeys(axisParsed) = {axes[i].k : i \in C10_NonNull}
          /\ \A i \in C10_NonNull :
                MapHas(axisParsed, axes[i].k)
                    => MapGet(axisParsed, axes[i].k) = C10_Number(axes[i].v)

\* ---- C11
C11_NonNull == {i \in 1..Len(feat.map) : feat.map[i].v.kind # "null"}
C11_Back(v) ==
    IF v.kind = "num" THEN v
    ELSE IF Truthy(v) THEN Num(FALSE, 1, 0) ELSE Num(FALSE, 0, 0)

\* C11: parseFeatures(featuresToString(features)) has the keys of the
\* non-null entries of features; a numeric entry comes back as the same
\* integer, any other entry as 1 when it is truthy and as 0 when it is falsy.
C11_RoundTrip ==
    feat.phase = "parsed" =>
        /\ Len(feat.parsed) = Cardinality(C11_NonNull)
        /\ MapKeys(feat.parsed) = {feat.map[i].k : i \in C11_NonNull}
        /\ \A i \in C11_NonNull :
              /\ MapHas(feat.parsed, feat.map[i].k)
              /\ MapGet(feat.parsed, feat.map[i].k) = C11_Back(feat.map[i].v)

C11_Witness ==
    /\ feat.phase = "parsed"
    /\ Len(feat.map) = 2
    /\ feat.map[1] = [k |-> TagLiga, v |-> Str(<<"o", "f", "f">>)]
    /\ feat.map[2] = [k |-> TagCv01, v |-> Num(FALSE, 12, 0)]
    /\ MapGet(feat.parsed, TagLiga) = Num(FALSE, 1, 0)
    /\ MapGet(feat.parsed, TagCv01) = Num(FALSE, 12, 0)

\* ---- C12
\* the invocations made so far are those of the listeners registered at the
\* moment of the emit, in their order, each with the payload of the emit
C12_Invoked ==
    emitter.emits > 0 =>
        /\ emitter.idx >= 1 /\ emitter.idx <= Len(emitter.snap) + 1
        /\ emitter.invoked = [i \in 1..(emitter.idx - 1) |->
                                 [fn |-> emitter.snap[i], payload |-> emitter.payload]]
        /\ emitter.errors <= Len(emitter.invoked)
        /\ emitter.phase = "idle" =>
              /\ emitter.returned
              /\ Len(emitter.invoked) = Len(emitter.snap)

C12_Step ==
    /\ emitter'.emits # emitter.emits =>
          /\ emitter'.type = EmittedBy(emitter'.caller)
          /\ emitter'.snap = emitter.listeners[emitter'.type]
          /\ emitter'.listeners = emitter.listeners
    /\ emitter.phase = "emitting" =>
          /\ emitter'.emits = emitter.emits
          /\ emitter'.snap = emitter.snap
          /\ emitter'.payload = emitter.payload
          /\ emitter'.caller = emitter.caller
          /\ \/ Len(emitter'.invoked) = Len(emitter.invoked) + 1 /\ emitter'.phase = "emitting"
             \/ emitter'.invoked = emitter.invoked /\ emitter'.phase = "idle" /\ emitter'.returned

\* C12: emit(type, payload) invokes the listeners that are registered for
\* the type when emit is called, one after the other in registration order
\* and before anything else runs; a listener that throws is caught, the
\* later listeners are still invoked with the same payload, and emit
\* returns to the method that called it.
C12_EmitInvokesAll == []C12_Invoked /\ [][C12_Step]_vars

C12_Witness ==
    /\ emitter.phase = "idle"
    /\ emitter.returned
    /\ emitter.caller = "createClass"
    /\ Len(emitter.snap) = 2
    /\ emitter.errors = 2
    /\ emitter.listeners["class"] = <<>>
    /\ Len(emitter.invoked) = 2

\* ---- C13
C13_Once ==
    /\ wait.resolves <= 1
    /\ (wait.phase = "resolved") <=> (wait.resolves = 1)
    /\ wait.phase = "resolved" => ~wait.scheduled /\ ~wait.probe
    /\ wait.phase = "polling" => wait.scheduled /\ wait.polls >= 1

C13_PollStep ==
    /\ wait.phase = "resolved" => wait' = wait
    /\ wait'.polls = wait.polls =>
          /\ wait'.phase = wait.phase /\ wait'.resolves = wait.resolves
          /\ wait'.now = wait.now
    /\ wait'.polls # wait.polls =>
          /\ wait'.polls = wait.polls + 1
          /\ wait.phase = "idle" \/ (wait.phase = "polling" /\ wait.scheduled)
          /\ wait'.timeoutAt = (IF wait.phase = "idle" THEN wait.now + wait.timeout ELSE wait.timeoutAt)
          /\ IF Abs(wait'.width - wait'.baseWidth) > 1
             THEN wait'.phase = "resolved" /\ wait'.value = TRUE
             ELSE IF wait'.now > wait'.timeoutAt
             THEN wait'.phase = "resolved" /\ wait'.value = FALSE
             ELSE wait'.phase = "polling"

C13_Resolves == (wait.phase = "polling") ~> (wait.phase = "resolved")

\* C13 as stated: waitFor resolves once and schedules nothing afterwards,
\* with true at the first poll that finds the width more than 0.5px from the
\* baseline, and with false when the deadline has elapsed before such a
\* poll.
C13_FalseOnceDeadlinePassed ==
    /\ C13_Once
    /\ wait.phase = "resolved" =>
          /\ wait.value => Abs(wait.width - wait.baseWidth) > 1
          /\ wait.now > wait.timeoutAt => wait.value = FALSE

\* C13, amended: waitFor polls at once and then once per animation frame,
\* and resolves exactly once: with true at the first poll that finds the
\* width more than 0.5px from the baseline, also when the deadline has
\* passed by then, and with false at the first poll that finds the deadline
\* (start + timeout) passed and the width within 0.5px; while animation
\* frames keep firing it resolves, and nothing is scheduled afterwards.
C13_WidthBeforeDeadline == []C13_Once /\ [][C13_PollStep]_vars /\ C13_Resolves

C13_Witness ==
    /\ wait.phase = "resolved"
    /\ wait.value = TRUE
    /\ wait.polls >= 2
    /\ wait.now > wait.timeoutAt

\* ---- C14
C14_Tags == ElemTags \cup {TagItal}

\* the style applied last had no axes: the settings are the empty string and
\* getAxis finds no axis; the same for the features
C14_Cleared ==
    elem.op.name \in {"applyToElement", "bindElement", "update"} =>
        /\ elem.op.noAxes =>
              /\ elem.fvs = <<>>
              /\ \A k \in C14_Tags : getAxis(elem.fvs, k) = Undefined
        /\ elem.op.noFeatures =>
              /\ elem.ffs = <<>>
              /\ \A k \in FeatureTags : getFeature(elem.ffs, k) = Undefined

\* the style that bindElement and update apply is the bound style
C14_BoundStyle ==
    elem.op.name \in {"bindElement", "update"} =>
        /\ elem.op.noAxes = (~elem.style.axesGiven \/ elem.style.axes = <<>>)
        /\ elem.op.noFeatures = (~elem.style.featuresGiven \/ elem.style.features = <<>>)

\* C14: applyToElement with a style whose axes (features) are absent or
\* empty sets font-variation-settings (font-feature-settings) to the empty
\* string, whatever applyToElement, setAxis, setFeature or a running
\* animateAxis had set; after update(patch) the bound style is applied, and
\* when it has no axes getAxis returns undefined for every axis.
C14_AbsentClears == C14_Cleared /\ C14_BoundStyle

C14_Witness ==
    /\ elem.op.name = "update"
    /\ elem.op.noAxes /\ elem.op.noFeatures
    /\ elem.fvs = <<>> /\ elem.ffs = <<>>
    /\ elem.anims[1].phase = "running" /\ elem.anims[1].sets = 1
    /\ getAxis(elem.fvs, elem.anims[1].axis) = Undefined

\* ---- C15
C15_Int(n) == Normal(n < 0, Abs(n), 0)

C15_Run(a) ==
    LET an == elem.anims[a]
    IN  an.phase # "none" =>
            /\ an.e \in 0..an.duration
            /\ an.sets = an.frames /\ an.updates = an.frames
            /\ an.frames > 0 => an.val = AnimValue(an.from, an.to, an.e, an.duration)
            /\ (an.frames > 0 /\ 2 * an.e = an.duration) => an.val = C15_Int((an.from + an.to) \div 2)
            /\ an.completes <= 1
            /\ (an.phase = "done") <=> (an.completes = 1)
            /\ an.phase = "done" =>
                  /\ an.e = an.duration
                  /\ an.completeVal = C15_Int(an.to)
                  /\ an.val = an.completeVal
            /\ an.phase = "running" => (an.frames = 0 \/ an.e < an.duration)

C15_Runs ==
    /\ \A a \in Anims : C15_Run(a)
    /\ \A i \in 1..Len(elem.due) : elem.anims[elem.due[i]].phase = "running"

C15_Frame ==
    \A a \in Anims :
        LET an == elem.anims[a]
            next == elem'.anims[a]
        IN  /\ an.phase = "done" => next = an
            /\ (an.phase = "running" /\ next # an) =>
                  /\ next.frames = an.frames + 1
                  /\ next.sets = an.sets + 1 /\ next.updates = an.updates + 1
                  /\ next.e >= an.e
                  /\ elem'.fvs = setAxis(elem.fvs, an.axis, next.val)
                  /\ (next.e = an.duration) <=> (next.completes = an.completes + 1)
                  /\ (next.e < an.duration) <=> (next.phase = "running")

\* C15: animateAxis runs one step per animation frame; a step calls setAxis
\* with the eased value and then onUpdate(value, t), t never decreases and
\* stays within [0, 1]; onComplete is called once, on the first frame with
\* t = 1, with the value `to`; after it no frame is asked for and neither
\* setAxis nor onUpdate is called again.
C15_OneStepPerFrame == []C15_Runs /\ [][C15_Frame]_vars

C15_Witness ==
    /\ elem.anims[1].phase = "done" /\ elem.anims[1].frames = 2
    /\ elem.anims[1].axis = TagSlnt /\ elem.anims[1].completeVal = Num(TRUE, 10, 0)
    /\ elem.anims[2].phase = "running" /\ elem.anims[2].frames = 1
    /\ elem.op.name = "frame"

\* ---- C16
C16_Reads ==
    elem.op.name \in {"setAxis", "tick"} => getAxis(elem.fvs, elem.op.axis) = elem.op.v

C16_OthersKept ==
    elem'.op.name \in {"setAxis", "tick"} =>
        \A k \in C14_Tags :
            k # elem'.op.axis => getAxis(elem'.fvs, k) = getAxis(elem.fvs, k)

\* C16: after setAxis(el, name, v), called by the page or by a step of
\* animateAxis, getAxis(el, name) returns v and getAxis returns for every
\* other axis what it returned before.
C16_SetThenGet == []C16_Reads /\ [][C16_OthersKept]_vars

\* ---- C17
\* the calls ensureFonts made for the valid descriptors of its list
C17_ValidCalls ==
    {batch.ids[i] : i \in {j \in 1..Len(batch.ids) : ~C4_Malformed(batch.list[j])}}
C17_InvalidCalls ==
    {batch.ids[i] : i \in {j \in 1..Len(batch.ids) : C4_Malformed(batch.list[j])}}

C17_Kept ==
    batch.status = "rejected" =>
        /\ C17_InvalidCalls # {}
        /\ \A c \in C17_InvalidCalls :
              /\ pc[c] = "rejected"
              /\ LoadEvents(c) = {} /\ ReadyEvents(c) = {}
              /\ \A r \in 1..Len(registry) : registry[r] # Normalize(desc[c])
        /\ \A c \in C17_ValidCalls :
              /\ pc[c] \in {"awaitLoad", "loadSettled", "awaitReady", "readySettled", "done"}
              /\ PastLoad(c) =>
                    /\ RegistryHas(registry, desc[c].name)
                    /\ RegistryGet(registry, desc[c].name) = Normalize(desc[c])
                    /\ LoadEvents(c) # {}
              /\ pc[c] = "done" =>
                    /\ ReadyEvents(c) # {}
                    /\ \A i \in LoadEvents(c), j \in ReadyEvents(c) : i < j

\* the rejection of ensureFonts touches no load
C17_RejectStep ==
    (batch.status # "rejected" /\ batch'.status = "rejected") =>
        UNCHANGED <<pc, platform, perr, timer, lres, wok, registry, events, documentFonts>>

C17_Completes ==
    \A c \in Calls :
        (batch.status = "rejected" /\ c \in C17_ValidCalls)
            ~> (pc[c] = "done" /\ ReadyEvents(c) # {} /\ RegistryHas(registry, desc[c].name))

C18_Shown == IF theme.dataTheme = "light" THEN "light" ELSE "dark"

C18_Consistent ==
    theme.phase = "ready" =>
        /\ theme.ariaPressed \in {"true", "false"}
        /\ (theme.dataTheme = "light") <=> (theme.ariaPressed = "true")
        /\ theme.clicks > 0 =>
              /\ theme.storage[ThemeKey] \in {"light", "dark"}
              /\ theme.storage[ThemeKey] = C18_Shown

C18_Click ==
    theme'.clicks # theme.clicks =>
        /\ theme.phase = "ready" /\ theme'.phase = "ready"
        /\ (theme.dataTheme = "light") => (theme'.dataTheme = "none" /\ theme'.storage[ThemeKey] = "dark")
        /\ (theme.dataTheme # "light") => (theme'.dataTheme = "light" /\ theme'.storage[ThemeKey] = "light")
        /\ theme'.storage[OtherKey] = theme.storage[OtherKey]

C18_Initialised ==
    (theme.phase = "loaded" /\ theme'.phase = "ready" /\ theme.storage[ThemeKey] \in {"light", "dark"}) =>
        /\ theme'.dataTheme = (IF theme.storage[ThemeKey] = "light" THEN "light" ELSE "none")
        /\ theme'.storage = theme.storage

\* C18: once the script has run, and after every click, the root element has
\* data-theme='light' exactly when the button's aria-pressed is 'true'; a
\* click flips the theme and stores the new one under 'ml-tools-theme', the
\* stored value is the theme shown after the last click, and the script run
\* again with that stored value shows the same theme.
C18_ThemeToggle == []C18_Consistent /\ [][C18_Click]_vars /\ [][C18_Initialised]_vars

C18_Witness ==
    /\ theme.phase = "ready" /\ theme.loads = 2 /\ theme.sinceLoad = 0
    /\ theme.clicks = 3
    /\ theme.storage[ThemeKey] = "light" /\ theme.dataTheme = "light"
    /\ theme.ariaPressed = "true"
    /\ ~theme.prefersLight /\ theme.markup = "none"

=============================================================================
